---- MODULE Spec2Model ----
(***************************************************************************)
(* The search orchestrator of mytool/auto-search.js: main, executeByNumber *)
(* and executeSearch of AutoSearchManager, with the RealtorSearch request   *)
(* state, the CurlParser override and the static list allConfigs.           *)
(* The remote service, the file system and the timer are the environment:   *)
(* every response, read and write outcome is chosen with \E.                *)
(***************************************************************************)
EXTENDS Integers, Sequences, FiniteSets, TLC

(* ------------------------------------------------------------ bounds *)
\* Largest number of records one response page carries.
MaxRecords == 1
\* Largest small total record count a first page reports.
MaxTotalRecords == 3
\* Only first pages whose computed page count is at most this are drawn.
MaxTotalPages == 3
\* Largest page limit (maxPages) a run is configured with.
MaxPagesOption == 2

(* --------------------------------------------------- program constants *)
\* latlngList has three entries, so allConfigs has three units.
NumConfigs == 3
\* results.Paging?.RecordsPerPage || 12
DefaultRecordsPerPage == 12

Min(a, b) == IF a < b THEN a ELSE b

\* Math.ceil(a / b) for a >= 0, b > 0
Ceil(a, b) == (a + b - 1) \div b

\* Object spread { ...a, ...b }: the fields of b override those of a.
Spread(a, b) ==
    [k \in (DOMAIN a) \cup (DOMAIN b) |-> IF k \in DOMAIN b THEN b[k] ELSE a[k]]

\* DEFAULT_CONFIG.searchParams (the fields the orchestrator depends on)
DEFAULT_CONFIG == [searchParams |-> [CurrentPage |-> 1, RecordsPerPage |-> 12]]

\* mainbody, the static base parameters of every unit
mainbody == [CurrentPage |-> 2, RecordsPerPage |-> 25]

\* allConfigs: one entry per latlngList point, its bounding box plus mainbody
InitialConfigs == [u \in 1..NumConfigs |-> Spread([Region |-> u], mainbody)]

\* CurlParser.parseCurl with an override: searchParams IS the override object
parseCurl(conf) == [searchParams |-> conf]

(* ------------------------------------------------------- environment *)
\* What a failed request throws: whether the message contains 'redirect'
\* and the HTTP status of error.response (0: the error carries no response).
Errors ==
    { [redirect |-> TRUE,  status |-> 0],
      [redirect |-> FALSE, status |-> 429],
      [redirect |-> TRUE,  status |-> 429],
      [redirect |-> FALSE, status |-> 500],
      [redirect |-> FALSE, status |-> 0] }

\* The records of page p of a unit, n of them, in the order the page lists them.
PageRecords(p, n) == [k \in 1..n |-> <<p, k>>]

\* The totals a first page reports: the small ones, and the smallest one that
\* needs a second page at the default page size.
TotalRecordsValues == (0..MaxTotalRecords) \cup {DefaultRecordsPerPage + 1}

\* The page sizes a first page reports; 0 stands for "not reported".
PageSizeValues == {0, 1, 2}

VARIABLES
    config,         \* AutoSearchManager.config
    fileExists,     \* fs.existsSync(curls/<number>.txt)
    allConfigs,     \* the static configuration list
    defaults,       \* DEFAULT_CONFIG.searchParams, the object as it stands
    pc,             \* where the single thread of control stands
    i,              \* executeByNumber's loop index (1-based)
    searcher,       \* the RealtorSearch instance's searchParams
    results,        \* executeSearch's results object (the first page, merged into)
    page,           \* executeSearch's loop variable
    pagesToFetch,   \* executeSearch's pagesToFetch
    response,       \* what the unit's last settled request delivered
    inFlight,       \* the remote requests sent and not yet settled
    allResults,     \* executeByNumber's allResults
    failedConfigs,  \* executeByNumber's failedConfigs
    log,            \* requests and delays since the end of the previous unit
    caught,         \* error.message in the catch of the loop body ("" if none yet in this unit)
    saveCalls,      \* the units whose result was handed to saveResults
    exitCode        \* the process exit code (-1 while running)

vars == <<config, fileExists, allConfigs, defaults, pc, i, searcher, results, page,
          pagesToFetch, response, inFlight, allResults, failedConfigs,
          log, caught, saveCalls, exitCode>>

\* The state of the analyzer process (analyzer.js), a program of its own that
\* reads back the result files the search wrote.
VARIABLES
    step,             \* where the analyzer's thread of control stands
    lastIndex,        \* GARAGE_REGEX.lastIndex (the pattern carries the g flag)
    fileNo,           \* the number of the result file being processed (0 before the first)
    ingested,         \* the raw records reached so far, in ingestion order
    seenMlsNumbers,   \* processAllJsonFiles' seenMlsNumbers
    allListings,      \* processAllJsonFiles' allListings
    thrown,           \* whether the last step raised (and the file's catch logged it)
    filteredListings, \* main's filteredListings
    csv,              \* the text convertToCSV returned (the report)
    timezone          \* the offset from UTC of the zone the process runs in

avars == <<step, lastIndex, fileNo, ingested, seenMlsNumbers, allListings,
           thrown, filteredListings, csv, timezone>>

\* The computation of a bounding box, when the configurations are built from
\* latlngList.
VARIABLES
    latlng,           \* the point and radius calculateBoundingBox is called on
    bbox              \* what calculateBoundingBox returned

bvars == <<latlng, bbox>>

\* The pacing delay taken alone: getRandomDelay on a manager whose delay window
\* is the caller's (the constructor merges any config over the defaults).
\* Milliseconds are counted in halves, so that a window need not be whole.
VARIABLES
    minDelay,         \* this.config.minDelayBetweenRequests, in half milliseconds
    maxDelay,         \* this.config.maxDelayBetweenRequests, in half milliseconds
    randomDelay       \* what getRandomDelay returned

dvars == <<minDelay, maxDelay, randomDelay>>

\* AUTO_SEARCH_CONFIG's window, in milliseconds.
minDelayBetweenRequests == 2000
maxDelayBetweenRequests == 5000

\* No delay has been drawn.
DelayAbsent ==
    /\ minDelay = 2 * minDelayBetweenRequests
    /\ maxDelay = 2 * maxDelayBetweenRequests
    /\ randomDelay = [returned |-> FALSE]

\* Outside that computation.
BoxAbsent ==
    /\ latlng = [lat |-> 0, lon |-> 0, area |-> 0]
    /\ bbox = [called |-> FALSE]

\* In a search process no analyzer runs.
AnalyzerAbsent ==
    /\ step = "absent"
    /\ lastIndex = 0
    /\ fileNo = 0
    /\ ingested = <<>>
    /\ seenMlsNumbers = {}
    /\ allListings = <<>>
    /\ thrown = FALSE
    /\ filteredListings = <<>>
    /\ csv = <<>>
    /\ timezone = 0

\* The value of results before a unit's first page arrived.
NoResults ==
    [arrived |-> FALSE, hasResults |-> FALSE, Results |-> <<>>,
     TotalRecords |-> 0, RecordsPerPage |-> 0]

Init ==
    /\ config \in [fetchMultiplePages : BOOLEAN, fetchAllPages : BOOLEAN,
                   maxPages : (-1)..MaxPagesOption, saveToFile : BOOLEAN]
    /\ fileExists \in BOOLEAN
    /\ allConfigs = InitialConfigs
    /\ defaults = DEFAULT_CONFIG.searchParams
    /\ pc = "main"
    /\ i = 0
    /\ searcher = DEFAULT_CONFIG.searchParams
    /\ results = NoResults
    /\ page = 0
    /\ pagesToFetch = 0
    /\ response = [kind |-> "none"]
    /\ inFlight = {}
    /\ allResults = <<>>
    /\ failedConfigs = <<>>
    /\ log = <<>>
    /\ caught = ""
    /\ saveCalls = <<>>
    /\ exitCode = -1
    /\ AnalyzerAbsent
    /\ BoxAbsent
    /\ DelayAbsent


(* ------------------------------------------------- pure helpers of the code *)
\* The searcher built without the CurrentPage override.
NewSearcherNoReset(searchConfig) ==
    Spread(defaults, searchConfig.searchParams)

\* new RealtorSearch({ searchParams: { ...searchConfig.searchParams, CurrentPage: 1 } })
\* whose constructor spreads DEFAULT_CONFIG.searchParams under the custom ones.
NewSearcher(searchConfig) ==
    Spread(defaults,
           Spread(searchConfig.searchParams, [CurrentPage |-> 1]))

\* RealtorSearch.setPage
setPage(params, p) == [params EXCEPT !.CurrentPage = p]

\* The searcher of unit k handed the entry of allConfigs itself, as parseCurl
\* hands it on (config.searchParams = searchParamsOverride), with no copy made.
ParamsObjectShared(k) == "entry"

\* The object behind this.config.searchParams of unit k's searcher: one of the
\* searcher's own. executeSearch builds { ...searchConfig.searchParams,
\* CurrentPage: 1 } and the constructor { ...DEFAULT_CONFIG.searchParams,
\* ...customConfig.searchParams }, a new object each, so it is neither the
\* entry of allConfigs ("entry") nor DEFAULT_CONFIG.searchParams ("defaults").
ParamsObject(k) == "own"

\* this.config.searchParams.CurrentPage = page: the write reaches the object
\* obj, and the searcher reads its parameters through the same reference.
WriteCursor(obj, p) ==
    /\ searcher' = setPage(searcher, p)
    /\ allConfigs' = IF obj = "entry"
                     THEN [allConfigs EXCEPT ![i] = setPage(@, p)]
                     ELSE allConfigs
    /\ defaults' = IF obj = "defaults" THEN setPage(defaults, p) ELSE defaults

\* The request RealtorSearch.search() sends for unit u: its page cursor.
Request(u, params) == [unit |-> u, CurrentPage |-> params.CurrentPage]

\* (fetchMultiplePages || fetchAllPages) && totalRecords > currentResults
NeedsPaging(cfg, totalRecords, currentResults) ==
    (cfg.fetchMultiplePages \/ cfg.fetchAllPages) /\ totalRecords > currentResults

\* The page count rounded down instead of up.
TotalPagesFloor(totalRecords, reported) ==
    totalRecords \div (IF reported = 0 THEN DefaultRecordsPerPage ELSE reported)

\* recordsPerPage = Paging?.RecordsPerPage || 12; Math.ceil(totalRecords / recordsPerPage)
TotalPages(totalRecords, reported) ==
    Ceil(totalRecords, IF reported = 0 THEN DefaultRecordsPerPage ELSE reported)

\* A page count that takes no notice of maxPages.
PagesToFetchUnlimited(cfg, totalPages) == totalPages

\* (fetchAllPages || maxPages === 0) ? totalPages : Math.min(maxPages, totalPages)
PagesToFetch(cfg, totalPages) ==
    IF cfg.fetchAllPages \/ cfg.maxPages = 0
    THEN totalPages
    ELSE Min(cfg.maxPages, totalPages)

\* error.message of what a failed request throws
Message(e) ==
    IF e.redirect THEN "redirect"
    ELSE IF e.status = 0 THEN "network" ELSE "status"

\* The catch of the paging loop: what a page error does to the loop.
ErrorVerdict(e) ==
    IF e.redirect THEN "redirect"
    ELSE IF e.status = 429 THEN "rate"
    ELSE "skip"

\* The first pages the environment may answer with.
Reports ==
    { r \in [TotalRecords : TotalRecordsValues, RecordsPerPage : PageSizeValues] :
        TotalPages(r.TotalRecords, r.RecordsPerPage) <= MaxTotalPages }

\* The events of the current unit are kept, and the last event before it.
Window(l) == IF l = <<>> THEN <<>> ELSE <<l[Len(l)]>>

RequestEvent(req) == [type |-> "request", unit |-> req.unit, page |-> req.CurrentPage]
DelayEvent(u, kind) == [type |-> "delay", unit |-> u, kind |-> kind]

(* ------------------------------------------------------ executeByNumber *)
\* A loop test that lets the last unit be followed by one more.
NextAfterUnitOneMore(k) == IF k <= Len(allConfigs) THEN "unitDelay" ELSE "summary"

\* if (i < allConfigs.length - 1) await this.delay(...): where the loop goes
\* once unit k (1-based) is over.
NextAfterUnit(k) == IF k < Len(allConfigs) THEN "unitDelay" ELSE "summary"

\* The catch with a break in it: the run is abandoned at the first failure.
UnitCatchAbort(ar, msg) ==
    /\ caught' = msg
    /\ failedConfigs' = Append(failedConfigs, [index |-> i, config |-> allConfigs[i]])
    /\ allResults' = Append(ar, [kind |-> "failure", configIndex |-> i])
    /\ pc' = "summary"

\* The catch of executeByNumber's loop body: the failure is recorded in
\* failedConfigs and in allResults (ar: allResults as the try block left it).
\* The message is kept in caught; the descriptors carry the unit's index.
UnitCatch(ar, msg) ==
    /\ caught' = msg
    /\ failedConfigs' = Append(failedConfigs, [index |-> i, config |-> allConfigs[i]])
    /\ allResults' = Append(ar, [kind |-> "failure", configIndex |-> i])
    /\ pc' = NextAfterUnit(i)

\* The try block goes on: nothing is caught.
NoCatch == UNCHANGED <<allResults, failedConfigs, caught>>

\* executeByNumber without its existence check.
MainNoCheck ==
    /\ pc = "main"
    /\ UNCHANGED <<avars, bvars, dvars>>
    /\ i' = 1
    /\ pc' = "loop"
    /\ UNCHANGED <<config, fileExists, allConfigs, defaults, searcher, results, page,
                   pagesToFetch, response, inFlight, allResults, failedConfigs,
                   log, caught, saveCalls, exitCode>>

\* main: the manager is built and executeByNumber called; a missing file
\* throws before the loop, main's catch calls process.exit(1).
Main ==
    /\ pc = "main"
    /\ UNCHANGED <<avars, bvars, dvars>>
    /\ IF fileExists
       THEN /\ i' = 1
            /\ pc' = "loop"
            /\ exitCode' = exitCode
       ELSE /\ i' = i
            /\ pc' = "exited"
            /\ exitCode' = 1
    /\ UNCHANGED <<config, fileExists, allConfigs, defaults, searcher, results, page,
                   pagesToFetch, response, inFlight, allResults, failedConfigs,
                   log, caught, saveCalls>>

\* The head of the loop body up to the first await of executeSearch: the curl
\* file is parsed (the read may throw), the searcher is built and the first
\* page is requested.
StartUnit ==
    /\ pc = "loop"
    /\ UNCHANGED <<avars, bvars, dvars>>
    /\ results' = NoResults
    /\ page' = 0
    /\ pagesToFetch' = 0
    /\ response' = [kind |-> "none"]
    /\ \E readable \in (IF fileExists THEN BOOLEAN ELSE {FALSE}) :
         IF readable
         THEN /\ searcher' = NewSearcher(parseCurl(allConfigs[i]))
              /\ inFlight' = inFlight \cup {Request(i, searcher')}
              /\ log' = Append(Window(log), RequestEvent(Request(i, searcher')))
              /\ pc' = "awaitFirst"
              /\ caught' = ""
              /\ UNCHANGED <<allResults, failedConfigs>>
         ELSE /\ UnitCatch(allResults, "read")
              /\ log' = Window(log)
              /\ UNCHANGED <<searcher, inFlight>>
    /\ UNCHANGED <<config, fileExists, allConfigs, defaults, i, saveCalls, exitCode>>


(* --------------------------------------------------------- executeSearch *)
\* What a request may settle with: a page (with or without a Results list) or
\* an error.
DataResponses ==
    { [kind |-> "data", hasResults |-> TRUE, n |-> n] : n \in 0..MaxRecords }
    \cup { [kind |-> "data", hasResults |-> FALSE, n |-> 0] }

ErrorResponses == { [kind |-> "error", error |-> e] : e \in Errors }

\* The end of executeSearch once paging is over or was never entered.
\* paged: the multi-page block was entered, so its closing log line reads
\* results.Results.length, which throws when the first page had no Results list.
AfterPaging(res, paged) ==
    IF paged /\ ~res.hasResults
    THEN UnitCatch(allResults, "type")
    ELSE /\ pc' = "returned"
         /\ NoCatch

\* The first page settles. An error is rethrown by executeSearch and caught by
\* executeByNumber. A page sets totalRecords and currentResults, and the
\* multi-page block computes pagesToFetch and enters the loop at page 2.
FirstResponse ==
    /\ pc = "awaitFirst"
    /\ UNCHANGED <<avars, bvars, dvars>>
    /\ \E req \in inFlight :
         /\ inFlight' = inFlight \ {req}
         /\ \/ \E resp \in ErrorResponses :
                 /\ response' = resp
                 /\ UnitCatch(allResults, Message(resp.error))
                 /\ UNCHANGED <<results, page, pagesToFetch>>
            \/ \E resp \in DataResponses, rep \in Reports :
                 /\ response' = resp
                 /\ results' = [arrived |-> TRUE,
                                hasResults |-> resp.hasResults,
                                Results |-> PageRecords(1, resp.n),
                                TotalRecords |-> rep.TotalRecords,
                                RecordsPerPage |-> rep.RecordsPerPage]
                 /\ IF NeedsPaging(config, rep.TotalRecords, resp.n)
                    THEN /\ pagesToFetch' =
                              PagesToFetch(config,
                                  TotalPages(rep.TotalRecords, rep.RecordsPerPage))
                         /\ page' = 2
                         /\ IF page' <= pagesToFetch'
                            THEN /\ pc' = "pageDelay"
                                 /\ NoCatch
                            ELSE AfterPaging(results', TRUE)
                    ELSE /\ UNCHANGED <<page, pagesToFetch>>
                         /\ AfterPaging(results', FALSE)
    /\ UNCHANGED <<config, fileExists, allConfigs, defaults, i, searcher, log,
                   saveCalls, exitCode>>

\* searcher.search() called without await: the request is sent and the loop
\* body reads the pending promise, which has no Results, and breaks.
PageDelayElapsedNoAwait ==
    /\ pc = "pageDelay"
    /\ UNCHANGED <<avars, bvars, dvars>>
    /\ WriteCursor(ParamsObject(i), page)
    /\ inFlight' = inFlight \cup {Request(i, searcher')}
    /\ log' = Append(Append(log, DelayEvent(i, "page")),
                     RequestEvent(Request(i, searcher')))
    /\ AfterPaging(results, TRUE)
    /\ UNCHANGED <<config, fileExists, i, results, page,
                   pagesToFetch, response, saveCalls, exitCode>>

\* The pacing delay before a continuation page has elapsed: the page cursor is
\* set and the page requested.
PageDelayElapsed ==
    /\ pc = "pageDelay"
    /\ UNCHANGED <<avars, bvars, dvars>>
    /\ WriteCursor(ParamsObject(i), page)
    /\ inFlight' = inFlight \cup {Request(i, searcher')}
    /\ log' = Append(Append(log, DelayEvent(i, "page")),
                     RequestEvent(Request(i, searcher')))
    /\ pc' = "awaitPage"
    /\ UNCHANGED <<config, fileExists, i, results, page,
                   pagesToFetch, response, allResults, failedConfigs, caught,
                   saveCalls, exitCode>>

\* What the loop body does with a settled continuation request:
\*   "merge"    the page's records are pushed onto results.Results
\*   "empty"    no Results list or zero records: break
\*   "redirect" / "rate": break
\*   "skip"     any other error, and the TypeError of pushing onto a missing
\*              results.Results, which the same catch receives: next page
PageVerdict(res, resp) ==
    IF resp.kind = "data"
    THEN IF resp.hasResults /\ resp.n > 0
         THEN (IF res.hasResults THEN "merge" ELSE "skip")
         ELSE "empty"
    ELSE ErrorVerdict(resp.error)

\* A continuation page settles, and a page whose fetch raised is asked for again.
PageResponseRetrying ==
    /\ pc = "awaitPage"
    /\ UNCHANGED <<avars, bvars, dvars>>
    /\ \E req \in inFlight :
         /\ inFlight' = inFlight \ {req}
         /\ \E resp \in DataResponses \cup ErrorResponses :
              LET v == PageVerdict(results, resp) IN
              /\ results' = IF v = "merge"
                            THEN [results EXCEPT
                                    !.Results = @ \o PageRecords(page, resp.n)]
                            ELSE results
              /\ response' = resp
              /\ IF v \in {"merge", "skip"}
                 THEN /\ page' = IF resp.kind = "data" THEN page + 1 ELSE page
                      /\ IF page' <= pagesToFetch
                         THEN /\ pc' = "pageDelay"
                              /\ NoCatch
                         ELSE AfterPaging(results', TRUE)
                 ELSE /\ page' = page
                      /\ AfterPaging(results', TRUE)
    /\ UNCHANGED <<config, fileExists, allConfigs, defaults, i, searcher, pagesToFetch,
                   log, saveCalls, exitCode>>

\* A continuation page settles.
PageResponse ==
    /\ pc = "awaitPage"
    /\ UNCHANGED <<avars, bvars, dvars>>
    /\ \E req \in inFlight :
         /\ inFlight' = inFlight \ {req}
         /\ \E resp \in DataResponses \cup ErrorResponses :
              LET v == PageVerdict(results, resp) IN
              /\ results' = IF v = "merge"
                            THEN [results EXCEPT
                                    !.Results = @ \o PageRecords(page, resp.n)]
                            ELSE results
              /\ response' = resp
              /\ IF v \in {"merge", "skip"}
                 THEN /\ page' = page + 1
                      /\ IF page' <= pagesToFetch
                         THEN /\ pc' = "pageDelay"
                              /\ NoCatch
                         ELSE AfterPaging(results', TRUE)
                 ELSE /\ page' = page
                      /\ AfterPaging(results', TRUE)
    /\ UNCHANGED <<config, fileExists, allConfigs, defaults, i, searcher, pagesToFetch,
                   log, saveCalls, exitCode>>

(* ------------------------------------------- executeByNumber, after a unit *)
\* The result is saved whether saving is on or not.
AfterSearchSavingAlways ==
    /\ pc = "returned"
    /\ UNCHANGED <<avars, bvars, dvars>>
    /\ LET pushed == Append(allResults, [kind |-> "result", unit |-> i]) IN
       IF TRUE
       THEN /\ saveCalls' = Append(saveCalls, i)
            /\ \E written \in BOOLEAN :
                 IF written
                 THEN /\ allResults' = pushed
                      /\ pc' = NextAfterUnit(i)
                      /\ UNCHANGED <<failedConfigs, caught>>
                 ELSE UnitCatch(pushed, "write")
       ELSE /\ allResults' = pushed
            /\ pc' = NextAfterUnit(i)
            /\ UNCHANGED <<failedConfigs, caught, saveCalls>>
    /\ UNCHANGED <<config, fileExists, allConfigs, defaults, i, searcher, results, page,
                   pagesToFetch, response, inFlight, log, exitCode>>

\* executeSearch returned: the result is pushed, and saved when saving is on;
\* a write that throws reaches the catch of the loop body.
AfterSearch ==
    /\ pc = "returned"
    /\ UNCHANGED <<avars, bvars, dvars>>
    /\ LET pushed == Append(allResults, [kind |-> "result", unit |-> i]) IN
       IF config.saveToFile
       THEN /\ saveCalls' = Append(saveCalls, i)
            /\ \E written \in BOOLEAN :
                 IF written
                 THEN /\ allResults' = pushed
                      /\ pc' = NextAfterUnit(i)
                      /\ UNCHANGED <<failedConfigs, caught>>
                 ELSE UnitCatch(pushed, "write")
       ELSE /\ allResults' = pushed
            /\ pc' = NextAfterUnit(i)
            /\ UNCHANGED <<failedConfigs, caught, saveCalls>>
    /\ UNCHANGED <<config, fileExists, allConfigs, defaults, i, searcher, results, page,
                   pagesToFetch, response, inFlight, log, exitCode>>

\* this.delay(delay) called without await: the loop moves on at once.
UnitDelayNotAwaited ==
    /\ pc = "unitDelay"
    /\ UNCHANGED <<avars, bvars, dvars>>
    /\ i' = i + 1
    /\ pc' = "loop"
    /\ UNCHANGED <<config, fileExists, allConfigs, defaults, searcher, results, page,
                   pagesToFetch, response, inFlight, allResults, failedConfigs,
                   log, caught, saveCalls, exitCode>>

\* The inter-unit delay has elapsed: the loop moves to the next unit.
UnitDelayElapsed ==
    /\ pc = "unitDelay"
    /\ UNCHANGED <<avars, bvars, dvars>>
    /\ log' = Append(log, DelayEvent(i, "unit"))
    /\ i' = i + 1
    /\ pc' = "loop"
    /\ UNCHANGED <<config, fileExists, allConfigs, defaults, searcher, results, page,
                   pagesToFetch, response, inFlight, allResults, failedConfigs,
                   caught, saveCalls, exitCode>>

\* The summary is printed, executeByNumber and main return: exit code 0.
Summary ==
    /\ pc = "summary"
    /\ UNCHANGED <<avars, bvars, dvars>>
    /\ pc' = "exited"
    /\ exitCode' = 0
    /\ UNCHANGED <<config, fileExists, allConfigs, defaults, i, searcher, results, page,
                   pagesToFetch, response, inFlight, allResults, failedConfigs,
                   log, caught, saveCalls>>

Next ==
    \/ Main
    \/ StartUnit
    \/ FirstResponse
    \/ PageDelayElapsed
    \/ PageResponse
    \/ AfterSearch
    \/ UnitDelayElapsed
    \/ Summary

Spec == Init /\ [][Next]_vars

\* The run as the event loop drives it when every remote call and every delay
\* settles: each continuation runs once the promise it awaits has settled, and
\* the synchronous stretches between two awaits run to their end.
Fairness ==
    /\ WF_vars(Main)
    /\ WF_vars(StartUnit)
    /\ WF_vars(FirstResponse)
    /\ WF_vars(PageDelayElapsed)
    /\ WF_vars(PageResponse)
    /\ WF_vars(AfterSearch)
    /\ WF_vars(UnitDelayElapsed)
    /\ WF_vars(Summary)

FairSpec == Init /\ [][Next]_vars /\ Fairness


(* ===================================================== properties *)
\* The unit an entry of allResults belongs to.
OutcomeUnit(o) == IF o.kind = "result" THEN o.unit ELSE o.configIndex

\* The units with a failure descriptor in allResults.
FailedUnits ==
    { u \in 1..NumConfigs :
        \E k \in 1..Len(allResults) :
            allResults[k].kind = "failure" /\ allResults[k].configIndex = u }

\* This step settles the first-page request of unit i with an error.
FirstPageThrows == pc = "awaitFirst" /\ response'.kind = "error"

\* C1: a unit whose first-page fetch throws gets exactly one failure
\* descriptor (in failedConfigs and in allResults), the loop goes on to the
\* inter-unit delay and the next unit instead of ending the run, the summary
\* is reached only after the last unit, and the failure count it prints is
\* the number of units that failed, each counted once.
C1_UnitFailureIsolated ==
    /\ [][FirstPageThrows =>
            /\ failedConfigs' =
                   Append(failedConfigs, [index |-> i, config |-> allConfigs[i]])
            /\ allResults' =
                   Append(allResults, [kind |-> "failure", configIndex |-> i])
            /\ pc' = IF i < NumConfigs THEN "unitDelay" ELSE "summary"]_vars
    /\ [](pc = "unitDelay" => i < NumConfigs)
    /\ [](pc = "summary" =>
            /\ i = NumConfigs
            /\ Len(failedConfigs) = Cardinality(FailedUnits)
            /\ \A k \in 1..Len(failedConfigs) : failedConfigs[k].index \in FailedUnits
            /\ \A k, l \in 1..Len(failedConfigs) :
                   k < l => failedConfigs[k].index < failedConfigs[l].index)

\* The first-page fetch of unit 1 threw: one descriptor, and the loop waits
\* for the inter-unit delay before unit 2.
C1_Witness ==
    /\ pc = "unitDelay"
    /\ i = 1
    /\ response.kind = "error"
    /\ ~results.arrived
    /\ failedConfigs = <<[index |-> 1, config |-> allConfigs[1]]>>

\* C2: after a complete run the aggregate holds exactly one outcome per unit,
\* the k-th outcome being that of unit k, whatever searches and writes failed.
C2_OneOutcomePerUnit ==
    pc = "summary" =>
        /\ Len(allResults) = NumConfigs
        /\ \A k \in 1..Len(allResults) : OutcomeUnit(allResults[k]) = k


(* ------------------------------------------------ continuation paging *)
\* A settled request threw a redirect-loop signal or an HTTP 429.
StopError(resp) ==
    resp.kind = "error" /\ (resp.error.redirect \/ resp.error.status = 429)

\* A settled request threw something else.
OtherError(resp) == resp.kind = "error" /\ ~StopError(resp)

\* A settled request delivered a page without records (or without a list).
EmptyPage(resp) == resp.kind = "data" /\ (~resp.hasResults \/ resp.n = 0)

\* A settled request delivered a page with records.
FullPage(resp) == resp.kind = "data" /\ resp.hasResults /\ resp.n > 0

\* This step settles the request of a continuation page.
PageSettles == pc = "awaitPage" /\ pc' # "awaitPage"

\* executeSearch returns its result in this step: nothing is caught, no
\* further page is asked for.
ReturnsNormally ==
    /\ pc' = "returned"
    /\ failedConfigs' = failedConfigs
    /\ allResults' = allResults

\* The records of results.Results stand in page order.
InPageOrder(recs) ==
    \A k, l \in 1..Len(recs) :
        k < l => \/ recs[k][1] < recs[l][1]
                 \/ (recs[k][1] = recs[l][1] /\ recs[k][2] < recs[l][2])

\* C3: a redirect-loop signal or an HTTP 429 on a continuation page ends the
\* unit's paging at once: executeSearch returns normally with the records
\* merged so far, unchanged and in page order, and the unit is not failed.
C3_StopErrorEndsPaging ==
    /\ [][PageSettles /\ StopError(response') =>
            /\ ReturnsNormally
            /\ results' = results]_vars
    /\ [](InPageOrder(results.Results))

\* C3 for the units whose first page carried a Results list.
C3_WithResultsList ==
    /\ [][PageSettles /\ StopError(response') /\ results.hasResults =>
            /\ ReturnsNormally
            /\ results' = results]_vars
    /\ [](InPageOrder(results.Results))

\* C4: any other error on a continuation page skips that page only: nothing
\* of it is merged, what was merged stays, the loop goes on to the next page
\* if there is one, a later page's records are merged, and the unit is not
\* failed.
C4_OtherErrorSkipsPage ==
    /\ [][PageSettles /\ OtherError(response') =>
            /\ results' = results
            /\ page' = page + 1
            /\ failedConfigs' = failedConfigs
            /\ allResults' = allResults
            /\ pc' = IF page < pagesToFetch THEN "pageDelay" ELSE "returned"]_vars
    /\ [][PageSettles /\ FullPage(response') =>
            results'.Results = results.Results \o PageRecords(page, response'.n)]_vars

\* C4 for the units whose first page carried a Results list.
C4_WithResultsList ==
    /\ [][PageSettles /\ OtherError(response') /\ results.hasResults =>
            /\ results' = results
            /\ page' = page + 1
            /\ failedConfigs' = failedConfigs
            /\ allResults' = allResults
            /\ pc' = IF page < pagesToFetch THEN "pageDelay" ELSE "returned"]_vars
    /\ [][PageSettles /\ FullPage(response') /\ results.hasResults =>
            results'.Results = results.Results \o PageRecords(page, response'.n)]_vars

\* C5: a continuation page with zero records or no Results list ends the
\* unit's paging even when pagesToFetch is larger: executeSearch returns
\* normally with the records collected so far.
C5_EmptyPageEndsPaging ==
    [][PageSettles /\ EmptyPage(response') =>
            /\ ReturnsNormally
            /\ results' = results]_vars

\* C5 for the units whose first page carried a Results list.
C5_WithResultsList ==
    [][PageSettles /\ EmptyPage(response') /\ results.hasResults =>
            /\ ReturnsNormally
            /\ results' = results]_vars


(* ------------------------------------------------- requests and pacing *)
\* The control positions at which results, response and log are those of unit i.
InUnit ==
    pc \in {"awaitFirst", "pageDelay", "awaitPage", "returned", "unitDelay",
            "summary", "exited"} /\ i >= 1

\* Unit i's paging is over and its first page had arrived.
PagingOver ==
    pc \in {"returned", "unitDelay", "summary", "exited"} /\ i >= 1 /\ results.arrived

\* The page numbers requested for unit i so far, in the order requested.
UnitPages ==
    LET reqs == SelectSeq(log, LAMBDA e : e.type = "request" /\ e.unit = i)
    IN  [k \in 1..Len(reqs) |-> reqs[k].page]

\* The number of records unit i's first page carried.
FirstCount == Cardinality({ k \in 1..Len(results.Results) : results.Results[k][1] = 1 })

MultiPage == config.fetchMultiplePages \/ config.fetchAllPages

\* ceil(totalRecords / reportedPageSize), page size 12 when not reported:
\* the least n with n * size >= totalRecords.
ReportedPageCount ==
    LET size == IF results.RecordsPerPage = 0 THEN 12 ELSE results.RecordsPerPage
    IN  CHOOSE n \in 0..results.TotalRecords :
            /\ n * size >= results.TotalRecords
            /\ \A m \in 0..(n - 1) : m * size < results.TotalRecords

\* The last page a unit may ask for: the reported page count, cut to maxPages
\* when a page limit is set and fetch-all-pages is off.
PageLimit ==
    IF config.fetchAllPages \/ config.maxPages = 0
    THEN ReportedPageCount
    ELSE IF config.maxPages < ReportedPageCount THEN config.maxPages
         ELSE ReportedPageCount

\* Paging ended on a break: the last response was an empty page or a stop error.
StoppedEarly == EmptyPage(response) \/ StopError(response)

\* C6 as stated: continuation fetches happen iff multi-page mode is on and the
\* reported total exceeds the first page's record count, and then pages
\* 2, 3, ... are requested without gaps up to ceil(totalRecords / pageSize)
\* unless paging is stopped early.
C6_PagesUpToReportedCount ==
    InUnit =>
        /\ \A k \in 1..Len(UnitPages) : UnitPages[k] = k
        /\ Len(UnitPages) >= 2 =>
              /\ MultiPage
              /\ results.TotalRecords > FirstCount
              /\ Len(UnitPages) <= ReportedPageCount
        /\ (PagingOver /\ MultiPage /\ results.TotalRecords > FirstCount) =>
              /\ Len(UnitPages) >= 2
              /\ Len(UnitPages) = ReportedPageCount \/ StoppedEarly

\* C6, amended: continuation fetches happen iff multi-page mode is on, the
\* reported total exceeds the first page's record count and the page limit is
\* at least 2, the page limit being ceil(totalRecords / pageSize) cut to
\* maxPages when maxPages is not 0 and fetch-all-pages is off; the pages
\* requested are then 2, 3, ... without gaps up to the page limit unless
\* paging is stopped early.
C6_PagesUpToLimit ==
    InUnit =>
        /\ \A k \in 1..Len(UnitPages) : UnitPages[k] = k
        /\ Len(UnitPages) >= 2 =>
              /\ MultiPage
              /\ results.TotalRecords > FirstCount
              /\ Len(UnitPages) <= PageLimit
        /\ (PagingOver /\ MultiPage /\ results.TotalRecords > FirstCount
                /\ PageLimit >= 2) =>
              /\ Len(UnitPages) >= 2
              /\ Len(UnitPages) = PageLimit \/ StoppedEarly

\* A first page of 1 record reporting 2 in all at 1 per page, no page limit:
\* exactly one continuation fetch, of page 2, and paging ran to its end.
C6_Witness ==
    /\ pc = "returned"
    /\ config.fetchMultiplePages /\ config.maxPages = 0
    /\ results.TotalRecords = 2 /\ results.RecordsPerPage = 1 /\ FirstCount = 1
    /\ UnitPages = <<1, 2>>
    /\ FullPage(response)

\* C7: the first request of every unit carries CurrentPage = 1, though the
\* unit's configuration carries CurrentPage 2.
C7_FirstRequestIsPageOne ==
    /\ pc = "awaitFirst" => inFlight = {[unit |-> i, CurrentPage |-> 1]}
    /\ (InUnit /\ UnitPages # <<>>) => UnitPages[1] = 1

\* Unit 2, after unit 1 returned a result, asks for page 1 while its
\* configuration says CurrentPage 2.
C7_Witness ==
    /\ pc = "awaitFirst"
    /\ i = 2
    /\ allConfigs[2].CurrentPage = 2
    /\ inFlight = {[unit |-> 2, CurrentPage |-> 1]}
    /\ allResults = <<[kind |-> "result", unit |-> 1]>>

\* C8: at most one request is outstanding, and while one is outstanding the
\* run does nothing but wait for it: no delay runs and no unit ends.
C8_Serialized ==
    /\ Cardinality(inFlight) <= 1
    /\ inFlight # {} <=> pc \in {"awaitFirst", "awaitPage"}

\* Page 3 of unit 2 is outstanding, alone.
C8_Witness ==
    /\ pc = "awaitPage"
    /\ inFlight = {[unit |-> 2, CurrentPage |-> 3]}

\* C9: a delay elapses between any two consecutive requests: a page delay
\* right before every continuation page, and an inter-unit delay after every
\* unit but the last, failed or not, right before the next unit starts.
C9_PacedRequests ==
    /\ \A k \in 1..(Len(log) - 1) :
           log[k].type = "request" => log[k + 1].type = "delay"
    /\ \A k \in 1..Len(log) :
           (log[k].type = "request" /\ log[k].page # 1) =>
               k > 1 /\ log[k - 1] = DelayEvent(log[k].unit, "page")
    /\ \A k \in 1..Len(log) :
           (log[k].type = "request" /\ log[k].page = 1 /\ log[k].unit > 1) =>
               k > 1 /\ log[k - 1] = DelayEvent(log[k].unit - 1, "unit")
    /\ (pc = "loop" /\ i > 1) =>
           log # <<>> /\ log[Len(log)] = DelayEvent(i - 1, "unit")
    /\ \A k \in 1..Len(log) : log[k] # DelayEvent(NumConfigs, "unit")

\* Unit 1 failed; the inter-unit delay elapsed before unit 2's first page, and
\* a page delay before its page 2.
C9_Witness ==
    /\ pc = "awaitPage"
    /\ i = 2
    /\ failedConfigs = <<[index |-> 1, config |-> allConfigs[1]]>>
    /\ log = << DelayEvent(1, "unit"),
                RequestEvent([unit |-> 2, CurrentPage |-> 1]),
                DelayEvent(2, "page"),
                RequestEvent([unit |-> 2, CurrentPage |-> 2]) >>

\* C10: with the input file missing nothing is attempted and the process
\* exits with code 1; with the file present exit code 1 never occurs, the
\* process exits only after every unit was attempted and left an outcome, and
\* then with code 0, however many units failed.
C10_ExitCodes ==
    /\ ~fileExists =>
           /\ pc \in {"main", "exited"}
           /\ i = 0 /\ log = <<>> /\ inFlight = {}
           /\ allResults = <<>> /\ failedConfigs = <<>>
    /\ pc = "exited" => exitCode = (IF fileExists THEN 0 ELSE 1)
    /\ pc # "exited" => exitCode = -1
    /\ (pc = "exited" /\ fileExists) =>
           /\ i = NumConfigs
           /\ \A u \in 1..NumConfigs :
                  \E k \in 1..Len(allResults) : OutcomeUnit(allResults[k]) = u

\* Every unit failed and the process exited with code 0.
C10_Witness ==
    /\ pc = "exited"
    /\ exitCode = 0
    /\ Len(failedConfigs) = NumConfigs

(* ------------------------------------------------------ the page limit *)
\* C31 as stated: with a positive maxPages and fetch-all-pages off, no page
\* above min(maxPages, totalPages) is requested in a unit; with maxPages 0 or
\* fetch-all-pages on, none above totalPages.
C31_NoPageAboveLimit ==
    (InUnit /\ results.arrived) =>
        \A k \in 1..Len(UnitPages) :
            /\ (config.maxPages > 0 /\ ~config.fetchAllPages)
                 => UnitPages[k] <= Min(config.maxPages, ReportedPageCount)
            /\ (config.maxPages = 0 \/ config.fetchAllPages)
                 => UnitPages[k] <= ReportedPageCount

\* C31: the first page a unit requests is page 1, before any total is known;
\* of the pages after it none above min(maxPages, totalPages) is requested with a
\* positive maxPages and fetch-all-pages off, none above totalPages with
\* maxPages 0 or fetch-all-pages on, and in that case the pages up to
\* totalPages are requested when multi-page mode is on, the total exceeds the
\* first page's count and paging is not stopped early.
C31_NoLaterPageAboveLimit ==
    InUnit =>
        /\ UnitPages # <<>> => UnitPages[1] = 1
        /\ \A k \in 2..Len(UnitPages) :
               /\ results.arrived
               /\ (config.maxPages > 0 /\ ~config.fetchAllPages)
                    => UnitPages[k] <= Min(config.maxPages, ReportedPageCount)
               /\ (config.maxPages = 0 \/ config.fetchAllPages)
                    => UnitPages[k] <= ReportedPageCount
        /\ (PagingOver /\ MultiPage /\ (config.maxPages = 0 \/ config.fetchAllPages)
              /\ results.TotalRecords > FirstCount /\ ~StoppedEarly)
             => \A p \in 1..ReportedPageCount : \E k \in 1..Len(UnitPages) : UnitPages[k] = p

\* Three pages were reported and maxPages is 2: pages 1 and 2 were requested,
\* page 2 came with records, and the search returned.
C31_Witness ==
    /\ pc = "returned"
    /\ config.maxPages = 2 /\ ~config.fetchAllPages /\ config.fetchMultiplePages
    /\ ReportedPageCount = 3
    /\ UnitPages = <<1, 2>>
    /\ FullPage(response)

(* ------------------------------------------------- no page asked for twice *)
\* The number of requests for unit u in a log.
Requests(l, u) == Len(SelectSeq(l, LAMBDA e : e.type = "request" /\ e.unit = u))

\* C32: within one unit the requested page numbers strictly increase, so no
\* page is requested twice, whether its fetch returned records, failed or was
\* skipped; the unit index never goes back, every request is for the current
\* unit, and no request is made for a unit once it is recorded as failed.
C32_NoPageTwice ==
    /\ [](InUnit =>
            /\ \A j, k \in 1..Len(UnitPages) : j < k => UnitPages[j] < UnitPages[k]
            /\ \A k \in 1..Len(log) : log[k].type = "request" => log[k].unit = i)
    /\ [][/\ i' >= i
          /\ \A u \in FailedUnits : Requests(log', u) <= Requests(log, u)]_vars

\* The second unit asks for page 3 after the fetch of page 2 raised an error
\* that is skipped, the first unit having failed.
C32_Witness ==
    /\ pc = "awaitPage"
    /\ i = 2
    /\ 1 \in FailedUnits
    /\ UnitPages = <<1, 2, 3>>
    /\ OtherError(response)

(* ------------------------------------------------------------ termination *)
\* C33: when every remote call and every delay returns, the run ends, and
\* executeByNumber, once in its loop, reaches its summary; no unit beyond the
\* last is started and a unit makes no more requests than its pages to fetch
\* (one for the unit whose search stays on the first page), whatever the pages
\* bring: records, errors that are skipped, errors that stop, or nothing.
C33_Terminates ==
    /\ [](i <= NumConfigs)
    /\ [](InUnit => Len(UnitPages) <= (IF pagesToFetch > 1 THEN pagesToFetch ELSE 1))
    /\ <>(pc = "exited")
    /\ (pc = "loop") ~> (pc = "summary")

\* The summary is reached after a failed unit, a skipped page and a last unit
\* whose paging ended on an empty third page.
C33_Witness ==
    /\ pc = "summary"
    /\ i = NumConfigs
    /\ FailedUnits # {}
    /\ UnitPages = <<1, 2, 3>>
    /\ EmptyPage(response)

(* ------------------------------------------------ the static configuration *)
\* C34: a run leaves the static configuration as it was: every entry of
\* allConfigs, its CurrentPage included, and DEFAULT_CONFIG.searchParams keep
\* their values through every unit and every page fetch, and each unit's
\* searcher starts from them with the cursor on page 1, whatever page the
\* unit before it had reached.
C34_StaticConfigurationUnchanged ==
    /\ allConfigs = InitialConfigs
    /\ defaults = DEFAULT_CONFIG.searchParams
    /\ pc = "awaitFirst" =>
          searcher = Spread(DEFAULT_CONFIG.searchParams,
                            Spread(InitialConfigs[i], [CurrentPage |-> 1]))

\* The second unit has moved its cursor to page 3 after the first unit
\* returned; its entry of allConfigs still says CurrentPage 2.
C34_Witness ==
    /\ pc = "awaitPage"
    /\ i = 2
    /\ searcher.CurrentPage = 3
    /\ allConfigs[2].CurrentPage = 2
    /\ allResults # <<>>

(* ------------------------------------------------------------ persistence *)
\* The units in a sequence of saveResults calls.
Saved(calls) == { calls[k] : k \in 1..Len(calls) }

\* C35: a unit is handed to saveResults only when saving is enabled and its
\* search has returned a result (so never a unit whose search failed); the
\* call is made once the search has returned, with no request outstanding,
\* and no request for the unit follows it; with saving disabled saveResults
\* is never called.
C35_SavedAfterSearch ==
    /\ [](/\ ~config.saveToFile => saveCalls = <<>>
          /\ \A u \in Saved(saveCalls) :
                \E k \in 1..Len(allResults) :
                    allResults[k].kind = "result" /\ allResults[k].unit = u)
    /\ [][/\ saveCalls' # saveCalls =>
                /\ saveCalls' = Append(saveCalls, i)
                /\ i \notin Saved(saveCalls)
                /\ config.saveToFile
                /\ pc = "returned"
                /\ inFlight = {}
          /\ \A u \in Saved(saveCalls) : Requests(log', u) <= Requests(log, u)]_vars

\* With saving on, the first and the third unit were saved, the third after
\* continuation paging; the second unit's search failed and it was not saved.
C35_Witness ==
    /\ pc = "summary"
    /\ config.saveToFile
    /\ saveCalls = <<1, 3>>
    /\ allResults = <<[kind |-> "result", unit |-> 1],
                      [kind |-> "failure", configIndex |-> 2],
                      [kind |-> "result", unit |-> 3]>>
    /\ Len(UnitPages) >= 2

\* ===========================================================================
\* The analyzer (src/mytool/analyzer.js)
\* ===========================================================================

\* ---- JavaScript values ----------------------------------------------------
\* A field of a raw record is absent (undefined), null, a text, a number or a
\* list.  A text is a sequence of tokens; a token is a run of characters s of
\* w characters, or a run of w digits ("#") reading as the number n.

undefined == [type |-> "undefined", text |-> <<>>, num |-> 0, items |-> <<>>]
null == [type |-> "null", text |-> <<>>, num |-> 0, items |-> <<>>]
Str(t) == [type |-> "string", text |-> t, num |-> 0, items |-> <<>>]
Num(n) == [type |-> "number", text |-> <<>>, num |-> n, items |-> <<>>]
Arr(a) == [type |-> "array", text |-> <<>>, num |-> 0, items |-> a]

W(s, w) == [s |-> s, n |-> 0, w |-> w]
D(n, w) == [s |-> "#", n |-> n, w |-> w]
SP == W(" ", 1)
HY == W("-", 1)

\* !!v
Truthy(v) ==
    \/ v.type = "string" /\ v.text # <<>>
    \/ v.type = "number" /\ v.num # 0
    \/ v.type = "array"

\* a || b
Or(a, b) == IF Truthy(a) THEN a ELSE b

\* x ** k
RECURSIVE Pow(_, _)
Pow(x, k) == IF k = 0 THEN 1 ELSE x * Pow(x, k - 1)

\* ---- The keyword patterns -------------------------------------------------
\* The words of the texts below; the patterns ignore case and are not anchored,
\* so a pattern word is found at the end (a head) or at the start (a tail) of a
\* longer word.

toLowerCase(s) ==
    CASE s = "Pets"     -> "pets"
      [] s = "Garage"   -> "garage"
      [] s = "GARAGE"   -> "garage"
      [] s = "Basement" -> "basement"
      [] s = "Hardwood" -> "hardwood"
      [] s = "BSMT"     -> "bsmt"
      [] OTHER          -> s

IsSeparator(tok) == tok.s \in {" ", "-"}

\* The index of the first token after position k that is not one of [-\s].
RECURSIVE SkipSeparators(_, _)
SkipSeparators(text, k) ==
    IF k <= Len(text) /\ IsSeparator(text[k])
    THEN SkipSeparators(text, k + 1)
    ELSE k

\* head[-\s]*tail somewhere in the text
Follows(text, heads, tails) ==
    \E k \in 1..Len(text) :
        /\ toLowerCase(text[k].s) \in heads
        /\ LET m == SkipSeparators(text, k + 1) IN
           m <= Len(text) /\ toLowerCase(text[m].s) \in tails

Contains(text, words) == \E k \in 1..Len(text) : toLowerCase(text[k].s) \in words

PET_FRIENDLY_REGEX(text) ==
    LET pet == {"pet", "carpet"}
        pets == pet \cup {"pets", "carpets"}
        dog == {"dog"}
        dogs == dog \cup {"dogs"}
        cat == {"cat"}
        cats == cat \cup {"cats"}
        allowed == {"allowed", "ok", "okay", "welcome"}
        any == {"friendly"} \cup allowed
    IN  \/ Follows(text, pet, any)
        \/ Follows(text, pets, any)
        \/ Follows(text, dog, any)
        \/ Follows(text, dogs, allowed)
        \/ Follows(text, cat, any)
        \/ Follows(text, cats, allowed)

CARPET_FREE_REGEX(text) ==
    \/ Follows(text, {"carpet"}, {"free"})
    \/ Follows(text, {"no", "casino"}, {"carpet", "carpets"})
    \/ Contains(text, {"hardwood"})
    \/ Follows(text, {"laminate"}, {"floor", "floors", "flooring"})
    \/ Follows(text, {"tile"}, {"floor", "floors", "flooring"})

BASEMENT_REGEX(text) == Contains(text, {"basement", "bsmt"})

\* The words that contain "garage" (all of them start with it).
GarageWords == {"garage", "garages"}

\* The number of characters before token k.
RECURSIVE Offset(_, _)
Offset(text, k) == IF k <= 1 THEN 0 ELSE Offset(text, k - 1) + text[k - 1].w

\* GARAGE_REGEX.test(text) with the pattern's lastIndex at from: the search
\* starts at character from; a match leaves lastIndex after the match, a miss
\* puts it back to 0.
GARAGE_REGEX_test(text, from) ==
    LET hits == { k \in 1..Len(text) :
                     /\ toLowerCase(text[k].s) \in GarageWords
                     /\ Offset(text, k) >= from }
    IN  IF hits = {}
        THEN [found |-> FALSE, lastIndex |-> 0]
        ELSE LET k == CHOOSE h \in hits : \A g \in hits : h <= g
             IN  [found |-> TRUE, lastIndex |-> Offset(text, k) + 6]

\* property.Parking.some(p => p.Name && GARAGE_REGEX.test(p.Name)), from entry k
RECURSIVE ParkingSome(_, _, _)
ParkingSome(entries, k, from) ==
    IF k > Len(entries)
    THEN [found |-> FALSE, lastIndex |-> from]
    ELSE IF Truthy(entries[k].Name)
         THEN LET r == GARAGE_REGEX_test(entries[k].Name.text, from) IN
              IF r.found THEN r ELSE ParkingSome(entries, k + 1, r.lastIndex)
         ELSE ParkingSome(entries, k + 1, from)

checkHasGarage(property, from) ==
    LET inList == IF property.Parking.type = "array"
                  THEN ParkingSome(property.Parking.items, 1, from)
                  ELSE [found |-> FALSE, lastIndex |-> from]
    IN  IF inList.found
        THEN inList
        ELSE IF Truthy(property.ParkingType)
             THEN GARAGE_REGEX_test(property.ParkingType.text, inList.lastIndex)
             ELSE inList

\* text.match(...) exists for texts only.
NotText(v) == Truthy(v) /\ v.type # "string"

\* A check that answers 'n' where there is no text.
checkPetFriendlyTwoValued(v) ==
    IF Truthy(v) /\ PET_FRIENDLY_REGEX(v.text) THEN "y" ELSE "n"

checkPetFriendly(v) ==
    IF ~Truthy(v) THEN "unknown"
    ELSE IF PET_FRIENDLY_REGEX(v.text) THEN "y" ELSE "n"

checkCarpetFree(v) ==
    IF ~Truthy(v) THEN "unknown"
    ELSE IF CARPET_FREE_REGEX(v.text) THEN "y" ELSE "n"

\* `${addressText} ${publicRemarks}` tested against BASEMENT_REGEX
isBasement(addressText, publicRemarks) ==
    BASEMENT_REGEX(addressText.text \o <<SP>> \o publicRemarks.text)

\* ---- Numbers --------------------------------------------------------------
\* Areas are held in half square feet, so that the mean of a range is a whole
\* number: Sqft(n) is n square feet.
Sqft(n) == 2 * n

\* The value of a priority score that left the finite numbers (10000 / 0).
Infinity == 2147483647

\* The value of pricePerSqft when there is no area ('N/A').
NA == -1

\* The area a Listing needs to pass the filter, and to earn its bonus.
MinSqft == 700

\* a + b on scores
Plus(a, b) == IF a = Infinity \/ b = Infinity THEN Infinity ELSE a + b

\* Math.round(a / b) for a >= 0 and b > 0: halves go up
Round(a, b) == (2 * a + b) \div (2 * b)

\* Number(...) of the digits of a text, the other characters removed
\* (the empty text reads as 0).
RECURSIVE NumberOf(_)
NumberOf(text) ==
    IF text = <<>> THEN 0
    ELSE LET last == text[Len(text)]
             rest == SubSeq(text, 1, Len(text) - 1)
         IN  IF last.s = "#"
             THEN NumberOf(rest) * Pow(10, last.w) + last.n
             ELSE NumberOf(rest)

\* The index of the first "-" of a text at or after k (Len + 1 if none).
RECURSIVE NextHyphen(_, _)
NextHyphen(text, k) ==
    IF k > Len(text) \/ text[k].s = "-" THEN k ELSE NextHyphen(text, k + 1)

\* parseSqft of a text, in half square feet: with a "-" left after cleaning, the
\* mean of the first two parts; else the number the digits read as.
parseSqft(text) ==
    LET h1 == NextHyphen(text, 1)
        h2 == NextHyphen(text, h1 + 1)
    IN  IF h1 <= Len(text)
        THEN NumberOf(SubSeq(text, 1, h1 - 1)) + NumberOf(SubSeq(text, h1 + 1, h2 - 1))
        ELSE Sqft(NumberOf(text))

\* extractSqft's loop over building.FloorAreaMeasurements, from entry k.
RECURSIVE MeasurementsFrom(_, _)
MeasurementsFrom(ms, k) ==
    IF k > Len(ms)
    THEN [thrown |-> FALSE, sqft |-> 0]
    ELSE LET v == Or(ms[k].AreaUnformatted, ms[k].Area) IN
         IF ~Truthy(v) THEN MeasurementsFrom(ms, k + 1)
         ELSE IF NotText(v) THEN [thrown |-> TRUE, sqft |-> 0]
         ELSE IF parseSqft(v.text) > 0
              THEN [thrown |-> FALSE, sqft |-> parseSqft(v.text)]
              ELSE MeasurementsFrom(ms, k + 1)

extractSqft(building) ==
    IF building.FloorAreaMeasurements.type = "array"
    THEN MeasurementsFrom(building.FloorAreaMeasurements.items, 1)
    ELSE [thrown |-> FALSE, sqft |-> 0]

extractPrice(v) ==
    IF ~Truthy(v) THEN [thrown |-> FALSE, value |-> 0]
    ELSE IF NotText(v) THEN [thrown |-> TRUE, value |-> 0]
    ELSE [thrown |-> FALSE, value |-> NumberOf(v.text)]

\* (rentValue / sqft).toFixed(2), in hundredths
pricePerSqft(rentValue, sqft) ==
    IF sqft > 0 THEN Round(100 * rentValue * 2, sqft) ELSE NA

\* Math.round(10000 / (rentValue / sqft)): the price per square foot not rounded
\* to two decimals first.
ValueTermUnrounded(rentValue, sqft) == Round(10000 * sqft, 2 * rentValue)

\* Math.round(10000 / parseFloat(pricePerSqft))
ValueTerm(rentValue, sqft) ==
    LET cents == pricePerSqft(rentValue, sqft) IN
    IF cents = 0 THEN Infinity ELSE Round(10000 * 100, cents)

\* ---- formatTimestamp -----------------------------------------------------
\* Times are held in quarter days (6 hours, 216000000000 ticks): a tick text is
\* one token, the digits that read as q quarter days of ticks.
RECURSIVE Digits(_)
Digits(n) == IF n < 10 THEN 1 ELSE 1 + Digits(n \div 10)

\* The w digits that read as q quarter days of ticks.
Ticks(q, w) == [s |-> "#ticks", n |-> q, w |-> w]

\* 621355968000000000n, the ticks from 0001-01-01 to 1970-01-01, in quarter days
dotNetTicksToUnixEpoch == 2876648

\* The largest time value of a Date, 8.64e15 ms either side of the epoch, in
\* quarter days.
MaxDate == 400000000

\* The offsets of the zones a process runs in, in quarter days: UTC-6 and UTC.
TimezoneOffsets == {-1, 0}

\* Whether BigInt(v) returns: a text of digits (or of white space only, read as
\* 0n) or an integral number; any other text is a SyntaxError.
IsBigInt(v) ==
    \/ v.type = "number"
    \/ /\ v.type = "string"
       /\ \/ Len(v.text) = 1 /\ v.text[1].s \in {"#", "#ticks"}
          \/ \A k \in 1..Len(v.text) : v.text[k] = SP

\* BigInt(v), in quarter days; fewer than 216000000000 ticks are none.
BigInt(v) ==
    IF v.type = "string" /\ Len(v.text) = 1 /\ v.text[1].s = "#ticks"
    THEN v.text[1].n
    ELSE 0

\* date.getFullYear(), getMonth() + 1 and getDate() of the day that is days
\* after 1970-01-01 (the proleptic Gregorian calendar of Date).
CivilFromDays(days) ==
    LET z == days + 719468
        era == z \div 146097
        doe == z % 146097
        yoe == (doe - (doe \div 1460) + (doe \div 36524) - (doe \div 146096)) \div 365
        doy == doe - (365 * yoe + (yoe \div 4) - (yoe \div 100))
        mp == (5 * doy + 2) \div 153
        m == IF mp < 10 THEN mp + 3 ELSE mp - 9
    IN  [year |-> yoe + era * 400 + (IF m <= 2 THEN 1 ELSE 0),
         month |-> m,
         day |-> doy - ((153 * mp + 2) \div 5) + 1]

\* String(n).padStart(2, '0')
padStart2(n) == D(n, IF n < 10 THEN 2 ELSE Digits(n))

NaN == W("NaN", 3)

\* formatTimestamp(timestamp) in a process whose zone is tz quarter days from
\* UTC.  A time out of the range of Date is an Invalid Date, whose getters
\* return NaN; nothing is thrown for it.
formatTimestamp(timestamp, tz) ==
    IF ~Truthy(timestamp) THEN Str(<<>>)
    ELSE IF ~IsBigInt(timestamp) THEN timestamp
    ELSE LET unixQuarters == BigInt(timestamp) - dotNetTicksToUnixEpoch IN
         IF unixQuarters > MaxDate \/ unixQuarters < -MaxDate
         THEN Str(<<NaN, HY, NaN, HY, NaN>>)
         ELSE LET date == CivilFromDays((unixQuarters + tz) \div 4) IN
              Str(<<D(date.year, Digits(date.year)), HY, padStart2(date.month), HY,
                    padStart2(date.day)>>)

\* ---- The result files and their locations ---------------------------------
CONFIG_NAMES ==
    <<Str(<<W("OTPP", 4)>>), Str(<<W("Yonge&Bloor", 11)>>),
      Str(<<W("Bay&Wellesley", 13)>>)>>

\* `${number}_config${i + 1}_${timestamp}.json`, the file saveResults writes for
\* the k-th search of a run.
FileName(k) ==
    <<D(1, 1), W("_config", 7), D(k, Digits(k)), W("_", 1), W("2025-10-26T02-01-10-664Z", 24),
      W(".json", 5)>>

\* filename.match(/config(\d+)/i): the digits that follow the first "config"
\* followed by digits, or null.
extractConfigNumber(filename) ==
    LET at == { k \in 1..(Len(filename) - 1) :
                  /\ filename[k].s \in {"config", "_config", "_CONFIG", "CONFIG"}
                  /\ filename[k + 1].s = "#" }
    IN  IF at = {} THEN null
        ELSE Num(filename[(CHOOSE k \in at : \A j \in at : k <= j) + 1].n)

locationName(configNumber) ==
    IF Truthy(configNumber) /\ configNumber.num >= 1
       /\ configNumber.num <= Len(CONFIG_NAMES)
    THEN CONFIG_NAMES[configNumber.num]
    ELSE Str(<<W("Unknown", 7), SP, W("Location", 8)>>)

\* ---- processListing -------------------------------------------------------
\* What processListing leaves when it raises.
NoListing == [mlsNumber |-> undefined]

\* A score whose value term does not ask for a price.
priorityScoreUnguarded(petFriendly, hasGarage, carpetFree, sqft, rentValue) ==
    LET pet == IF petFriendly = "y" THEN 100 ELSE 0
        garage == IF hasGarage THEN 100 ELSE 0
        carpet == IF carpetFree = "y" THEN 50 ELSE 0
        area == IF sqft >= Sqft(MinSqft) THEN 10 ELSE 0
        value == IF sqft > 0 THEN ValueTerm(rentValue, sqft) ELSE 0
    IN  Plus(pet + garage + carpet + area, value)

priorityScore(petFriendly, hasGarage, carpetFree, sqft, rentValue) ==
    LET pet == IF petFriendly = "y" THEN 100 ELSE 0
        garage == IF hasGarage THEN 100 ELSE 0
        carpet == IF carpetFree = "y" THEN 50 ELSE 0
        area == IF sqft >= Sqft(MinSqft) THEN 10 ELSE 0
        value == IF sqft > 0 /\ rentValue > 0 THEN ValueTerm(rentValue, sqft) ELSE 0
    IN  Plus(pet + garage + carpet + area, value)

\* String(v)
String(v) ==
    CASE v.type = "string"    -> v.text
      [] v.type = "number"    -> <<D(v.num, Digits(v.num))>>
      [] v.type = "undefined" -> <<W("undefined", 9)>>
      [] v.type = "null"      -> <<W("null", 4)>>
      [] OTHER                -> <<W("[object", 7), SP, W("Object]", 7)>>

\* processListing(result, configNumber) with GARAGE_REGEX.lastIndex at from, in a
\* process of zone tz: the Listing, the pattern's new lastIndex, and whether a
\* TypeError was raised on the way.
processListing(result, configNumber, from, tz) ==
    LET property == result.Property
        building == result.Building
        land == result.Land
        mlsNumber == Or(result.MlsNumber, Str(<<>>))
        addressText == Or(property.Address.AddressText, Str(<<>>))
        rent == Or(property.LeaseRent, Or(property.Price, Str(<<>>)))
        garage == checkHasGarage(property, from)
        publicRemarks == Or(result.PublicRemarks, Str(<<>>))
        petFriendly == checkPetFriendly(publicRemarks)
        carpetFree == checkCarpetFree(publicRemarks)
        area == extractSqft(result.Building)
        price == extractPrice(rent)
    IN  IF NotText(publicRemarks) \/ area.thrown \/ price.thrown
        THEN [thrown |-> TRUE, lastIndex |-> garage.lastIndex, listing |-> NoListing]
        ELSE [thrown |-> FALSE, lastIndex |-> garage.lastIndex,
              listing |->
                [mlsNumber |-> mlsNumber,
                 addressText |-> addressText,
                 rent |-> rent,
                 bedrooms |-> Or(building.Bedrooms, Str(<<>>)),
                 bathrooms |-> Or(building.BathroomTotal, Str(<<>>)),
                 propertyType |-> Or(building.Type, Str(<<>>)),
                 sizeInterior |-> Or(building.SizeInterior, Str(<<>>)),
                 sqft |-> area.sqft,
                 landSize |-> Or(land.SizeTotal, Or(land.SizeFrontage, Str(<<>>))),
                 insertedDate |->
                     formatTimestamp(Or(result.InsertedDateUTC, Str(<<>>)), tz),
                 timeOnRealtor |-> Or(result.TimeOnRealtor, Str(<<>>)),
                 link |-> IF Truthy(result.RelativeURLEn)
                          THEN Str(<<W("https://www.realtor.ca", 22)>>
                                   \o String(result.RelativeURLEn))
                          ELSE Str(<<>>),
                 locationName |-> locationName(configNumber),
                 parkingSpaces |-> Or(property.ParkingSpaceTotal, Str(<<D(0, 1)>>)),
                 petFriendly |-> petFriendly,
                 carpetFree |-> carpetFree,
                 hasGarage |-> IF garage.found THEN "y" ELSE "n",
                 rentValue |-> price.value,
                 pricePerSqft |-> pricePerSqft(price.value, area.sqft),
                 priorityScore |-> priorityScore(petFriendly, garage.found, carpetFree,
                                                 area.sqft, price.value),
                 publicRemarks |-> publicRemarks,
                 isBasement |-> isBasement(addressText, publicRemarks)]]

\* ---- filterAndSortListings and convertToCSV -------------------------------
\* b.priorityScore - a.priorityScore > 0: b goes before a
Before(b, a) == b.priorityScore > a.priorityScore

\* A sort that puts x in front of the elements of equal score.
RECURSIVE InsertUnstable(_, _)
InsertUnstable(sorted, x) ==
    IF sorted = <<>> THEN <<x>>
    ELSE IF ~Before(sorted[1], x)
         THEN <<x>> \o sorted
         ELSE <<sorted[1]>> \o InsertUnstable(Tail(sorted), x)

\* Array.prototype.sort is stable: x goes behind every element it does not beat.
RECURSIVE InsertStable(_, _)
InsertStable(sorted, x) ==
    IF sorted = <<>> THEN <<x>>
    ELSE IF Before(x, sorted[1])
         THEN <<x>> \o sorted
         ELSE <<sorted[1]>> \o InsertStable(Tail(sorted), x)

RECURSIVE Sort(_)
Sort(listings) ==
    IF listings = <<>> THEN <<>>
    ELSE InsertStable(Sort(SubSeq(listings, 1, Len(listings) - 1)),
                      listings[Len(listings)])

\* A filter that forgets the basement flag.
PassesByAreaOnly(listing) == listing.sqft >= Sqft(MinSqft)

Passes(listing) == listing.sqft >= Sqft(MinSqft) /\ ~listing.isBasement

filterAndSortListings(listings) == Sort(SelectSeq(listings, Passes))

\* The names of the 21 columns, in English for the source's; none holds a
\* comma, a quote or a newline.
headers ==
    <<"MLS", "Address", "Rent", "Bedrooms", "Bathrooms", "Property Type",
      "Size Interior", "Sqft", "Land Size", "Inserted Date", "Time On Realtor",
      "Link", "Location", "Parking Spaces", "Pet Friendly", "Carpet Free",
      "Garage", "RentValue", "PricePerSqft", "PriorityScore", "Remarks">>

QUOTE == W("\"", 1)
COMMA == W(",", 1)
NL == W("\n", 1)
POINT == W(".", 1)

\* str.replace(/"/g, '""')
RECURSIVE DoubleQuotes(_)
DoubleQuotes(str) ==
    IF str = <<>> THEN <<>>
    ELSE (IF str[1] = QUOTE THEN <<QUOTE, QUOTE>> ELSE <<str[1]>>)
         \o DoubleQuotes(Tail(str))

\* An escape that wraps a value in quotes and leaves the quotes inside single.
escapeCSVNoDoubling(str) ==
    IF \E k \in 1..Len(str) : str[k] \in {QUOTE, COMMA, NL}
    THEN <<QUOTE>> \o str \o <<QUOTE>>
    ELSE str

\* escapeCSV on String(value)
escapeCSV(str) ==
    IF \E k \in 1..Len(str) : str[k] \in {QUOTE, COMMA, NL}
    THEN <<QUOTE>> \o DoubleQuotes(str) \o <<QUOTE>>
    ELSE str

\* texts.join(sep)
RECURSIVE join(_, _)
join(texts, sep) ==
    IF texts = <<>> THEN <<>>
    ELSE IF Len(texts) = 1 THEN texts[1]
    ELSE texts[1] \o <<sep>> \o join(Tail(texts), sep)

\* String(sqft), of an area held in halves
SqftString(sqft) ==
    IF sqft % 2 = 0 THEN <<D(sqft \div 2, Digits(sqft \div 2))>>
    ELSE <<D(sqft \div 2, Digits(sqft \div 2)), POINT, D(5, 1)>>

\* the text toFixed(2) returned, or 'N/A'
PriceString(cents) ==
    IF cents = NA THEN <<W("N/A", 3)>>
    ELSE <<D(cents \div 100, Digits(cents \div 100)), POINT, D(cents % 100, 2)>>

\* String(priorityScore)
ScoreString(score) ==
    IF score = Infinity THEN <<W("Infinity", 8)>> ELSE <<D(score, Digits(score))>>

\* String(value) of the 21 values of a row
row(listing) ==
    <<String(listing.mlsNumber), String(listing.addressText), String(listing.rent),
      String(listing.bedrooms), String(listing.bathrooms),
      String(listing.propertyType), String(listing.sizeInterior),
      SqftString(listing.sqft), String(listing.landSize),
      String(listing.insertedDate), String(listing.timeOnRealtor),
      String(listing.link), String(listing.locationName),
      String(listing.parkingSpaces),
      <<W(listing.petFriendly, Len(listing.petFriendly))>>,
      <<W(listing.carpetFree, Len(listing.carpetFree))>>,
      <<W(listing.hasGarage, 1)>>,
      <<D(listing.rentValue, Digits(listing.rentValue))>>,
      PriceString(listing.pricePerSqft), ScoreString(listing.priorityScore),
      String(listing.publicRemarks)>>

\* The text of the report: '' for no Listing, else the header line and a line
\* for each Listing, every value escaped and the values joined by commas.
convertToCSV(listings) ==
    IF listings = <<>> THEN <<>>
    ELSE LET line(values) ==
                 join([k \in 1..Len(values) |-> escapeCSV(values[k])], COMMA)
             rows == <<line([k \in 1..Len(headers) |-> <<W(headers[k], Len(headers[k]))>>])>>
                     \o [k \in 1..Len(listings) |-> line(row(listings[k]))]
         IN  join(rows, NL)

\* ---- Raw records ----------------------------------------------------------
Result(mls, remarks, address, rent, parking, parkingType, measurements) ==
    [MlsNumber |-> mls,
     PublicRemarks |-> remarks,
     InsertedDateUTC |-> undefined,
     TimeOnRealtor |-> undefined,
     RelativeURLEn |-> undefined,
     Property |-> [Address |-> [AddressText |-> address],
                   LeaseRent |-> rent,
                   Price |-> undefined,
                   Parking |-> parking,
                   ParkingType |-> parkingType,
                   ParkingSpaceTotal |-> undefined],
     Building |-> [FloorAreaMeasurements |-> measurements,
                   Bedrooms |-> undefined,
                   BathroomTotal |-> undefined,
                   Type |-> undefined,
                   SizeInterior |-> undefined],
     Land |-> [SizeTotal |-> undefined, SizeFrontage |-> undefined]]

Measurement(v) == [AreaUnformatted |-> v, Area |-> undefined]

\* "Pets allowed, hardwood floors"
RemarksFull ==
    Str(<<W("Pets", 4), SP, W("allowed", 7), W(",", 1), SP, W("Hardwood", 8), SP,
          W("floors", 6)>>)
\* "bright condo"
RemarksPlain == Str(<<W("bright", 6), SP, W("condo", 5)>>)
\* "dogs friendly" (no alternative of the pattern reads dogs + friendly)
RemarksDogs == Str(<<W("dogs", 4), SP, W("friendly", 8)>>)
\* "pet-friendly"
RemarksPet == Str(<<W("pet", 3), HY, W("friendly", 8)>>)
\* "no carpet"
RemarksCarpet == Str(<<W("no", 2), SP, W("carpet", 6)>>)
\* "Basement unit"
RemarksBasement == Str(<<W("Basement", 8), SP, W("unit", 4)>>)

\* "1 Bay St" and "2 King St BSMT"
AddressBay == Str(<<D(1, 1), SP, W("Bay", 3), SP, W("St", 2)>>)
AddressBsmt == Str(<<D(2, 1), SP, W("King", 4), SP, W("St", 2), SP, W("BSMT", 4)>>)

\* "$2,000/Monthly", "$1" and "$0"
Rent2000 == Str(<<W("$", 1), D(2, 1), W(",", 1), D(0, 3), W("/Monthly", 8)>>)
Rent1 == Str(<<W("$", 1), D(1, 1)>>)
Rent0 == Str(<<W("$", 1), D(0, 1)>>)

\* [{Name: "Garage"}], [{Name: "Underground"}, {Name: "Attached Garage"}]
ParkingGarage == Arr(<<[Name |-> Str(<<W("Garage", 6)>>)]>>)
ParkingAttached ==
    Arr(<<[Name |-> Str(<<W("Underground", 11)>>)],
          [Name |-> Str(<<W("Attached", 8), SP, W("Garage", 6)>>)]>>)
ParkingNone == Arr(<<[Name |-> undefined], [Name |-> Str(<<W("Surface", 7)>>)]>>)
TypeGarage == Str(<<W("GARAGE", 6)>>)

\* "700 sqft", "650 sqft", "600-799 sqft", "1000-1200 sqft", "0 sqft" then "850 sqft"
Area700 == Arr(<<Measurement(Str(<<D(700, 3), SP, W("sqft", 4)>>))>>)
Area650 == Arr(<<Measurement(Str(<<D(650, 3), SP, W("sqft", 4)>>))>>)
Area600to799 ==
    Arr(<<Measurement(Str(<<D(600, 3), HY, D(799, 3), SP, W("sqft", 4)>>))>>)
Area1000to1200 ==
    Arr(<<Measurement(Str(<<D(1000, 4), HY, D(1200, 4), SP, W("sqft", 4)>>))>>)
AreaSecond ==
    Arr(<<Measurement(Str(<<D(0, 1), SP, W("sqft", 4)>>)),
          [AreaUnformatted |-> undefined, Area |-> Str(<<D(850, 3), SP, W("sqft", 4)>>)]>>)
AreaNumber == Arr(<<Measurement(Num(850))>>)
\* "850.5 sqft"
AreaDecimal ==
    Arr(<<Measurement(Str(<<D(850, 3), W(".", 1), D(5, 1), SP, W("sqft", 4)>>))>>)

\* The records a single normalization is tried on: every combination of these
\* field values.
AnyResults ==
    { Result(Str(<<W("A", 1)>>), remarks, address, rent, parking, parkingType, ms) :
        remarks \in {undefined, null, Str(<<>>), RemarksFull, RemarksPlain, RemarksDogs,
                     RemarksPet, RemarksCarpet, RemarksBasement, Num(5)},
        address \in {undefined, AddressBay, AddressBsmt},
        rent \in {undefined, Rent2000, Rent1, Rent0, Num(3000)},
        parking \in {undefined, ParkingGarage, ParkingAttached, ParkingNone},
        parkingType \in {undefined, TypeGarage},
        ms \in {undefined, Area700, Area650, Area600to799, Area1000to1200,
                AreaSecond, AreaNumber, AreaDecimal} }

\* The positions GARAGE_REGEX.lastIndex can be left at by the names above.
LastIndexValues == {0, 6, 15}

\* The identifiers of the records of a run: absent, null, and two texts.
MlsNumbers == {undefined, null, Str(<<W("A", 1)>>), Str(<<W("B", 1)>>)}

\* The records of the result files of a run: seven records under each of the
\* two texts, and one without an identifier and one with null for it.
FileResults ==
    UNION { { Result(mls, RemarksFull, AddressBay, Rent2000, ParkingGarage, undefined, Area700),
              Result(mls, undefined, undefined, undefined, undefined, undefined, undefined),
              Result(mls, RemarksPlain, AddressBay, Rent2000, undefined, undefined, Area650),
              Result(mls, RemarksPlain, AddressBsmt, Rent2000, undefined, TypeGarage, Area700),
              Result(mls, RemarksPlain, AddressBay, Rent2000, undefined, undefined, Area700),
              Result(mls, RemarksPlain, AddressBay, Num(3000), undefined, undefined, Area700),
              Result(mls, RemarksPet, AddressBay, undefined, undefined, undefined, Area700) }
            : mls \in { m \in MlsNumbers : Truthy(m) } }
    \cup { Result(mls, RemarksPlain, AddressBay, Rent2000, undefined, undefined, Area700)
             : mls \in { m \in MlsNumbers : ~Truthy(m) } }

\* ---- The analyzer's run ---------------------------------------------------
\* The result files of a run, and the records reached in all of them.
MaxFiles == 2
MaxIngest == 2

\* In an analyzer process no search runs.
SearchAbsent ==
    /\ config = [fetchMultiplePages |-> FALSE, fetchAllPages |-> FALSE,
                 maxPages |-> 0, saveToFile |-> FALSE]
    /\ fileExists = FALSE
    /\ allConfigs = InitialConfigs
    /\ defaults = DEFAULT_CONFIG.searchParams
    /\ pc = "absent"
    /\ i = 0
    /\ searcher = DEFAULT_CONFIG.searchParams
    /\ results = NoResults
    /\ page = 0
    /\ pagesToFetch = 0
    /\ response = [kind |-> "none"]
    /\ inFlight = {}
    /\ allResults = <<>>
    /\ failedConfigs = <<>>
    /\ log = <<>>
    /\ caught = ""
    /\ saveCalls = <<>>
    /\ exitCode = -1

\* main of analyzer.js, about to call processAllJsonFiles
AnalyzerInit ==
    /\ SearchAbsent
    /\ BoxAbsent
    /\ DelayAbsent
    /\ step = "start"
    /\ lastIndex = 0
    /\ fileNo = 0
    /\ ingested = <<>>
    /\ seenMlsNumbers = {}
    /\ allListings = <<>>
    /\ thrown = FALSE
    /\ filteredListings = <<>>
    /\ csv = <<>>
    /\ timezone = 0

\* A loop without the catch around each file: a failure to read or parse a
\* file leaves processAllJsonFiles, and main with it.
OpenFileOrAbort ==
    /\ step \in {"start", "between"}
    /\ fileNo < MaxFiles
    /\ fileNo' = fileNo + 1
    /\ \E parsed \in BOOLEAN :
         /\ step' = IF parsed THEN "file" ELSE "done"
         /\ thrown' = ~parsed
    /\ UNCHANGED <<lastIndex, ingested, seenMlsNumbers, allListings,
                   filteredListings, csv, timezone>>
    /\ UNCHANGED <<vars, bvars, dvars>>

\* The next file of jsonFiles is read and parsed; a failure lands in the file's
\* catch, which logs it and goes on to the next file.
OpenFile ==
    /\ step \in {"start", "between"}
    /\ fileNo < MaxFiles
    /\ fileNo' = fileNo + 1
    /\ \E parsed \in BOOLEAN :
         /\ step' = IF parsed THEN "file" ELSE "between"
         /\ thrown' = ~parsed
    /\ UNCHANGED <<lastIndex, ingested, seenMlsNumbers, allListings,
                   filteredListings, csv, timezone>>
    /\ UNCHANGED <<vars, bvars, dvars>>

\* One turn of the loop over data.Results: a record whose MlsNumber was seen is
\* skipped; another is recorded as seen, normalized and pushed.  A TypeError
\* lands in the file's catch and the rest of the file is abandoned.
Ingest(r) ==
    IF r.MlsNumber \in seenMlsNumbers
    THEN /\ thrown' = FALSE
         /\ UNCHANGED <<seenMlsNumbers, lastIndex, allListings, step>>
    ELSE LET configNumber == extractConfigNumber(FileName(fileNo))
             p == processListing(r, configNumber, lastIndex, timezone)
         IN
         /\ seenMlsNumbers' = seenMlsNumbers \cup {r.MlsNumber}
         /\ lastIndex' = p.lastIndex
         /\ thrown' = p.thrown
         /\ allListings' = IF p.thrown THEN allListings ELSE Append(allListings, p.listing)
         /\ step' = IF p.thrown THEN "between" ELSE "file"

IngestResult ==
    /\ step = "file"
    /\ Len(ingested) < MaxIngest
    /\ \E r \in FileResults :
         /\ ingested' = Append(ingested, [result |-> r])
         /\ Ingest(r)
    /\ UNCHANGED <<fileNo, filteredListings, csv, timezone>>
    /\ UNCHANGED <<vars, bvars, dvars>>

\* The loop over data.Results ends.
EndFile ==
    /\ step = "file"
    /\ step' = "between"
    /\ thrown' = FALSE
    /\ UNCHANGED <<lastIndex, fileNo, ingested, seenMlsNumbers, allListings,
                   filteredListings, csv, timezone>>
    /\ UNCHANGED <<vars, bvars, dvars>>

\* A filter-and-sort that works on the list it is given: listings.sort() and a
\* splice of the rejected elements, in place.
FilterAndSortInPlace ==
    /\ step \in {"start", "between"}
    /\ thrown' = FALSE
    /\ IF allListings = <<>>
       THEN /\ step' = "done"
            /\ UNCHANGED <<allListings, filteredListings>>
       ELSE /\ allListings' = filterAndSortListings(allListings)
            /\ filteredListings' = allListings'
            /\ step' = IF filteredListings' = <<>> THEN "done" ELSE "filtered"
    /\ UNCHANGED <<lastIndex, fileNo, ingested, seenMlsNumbers, csv, timezone>>
    /\ UNCHANGED <<vars, bvars, dvars>>

\* processAllJsonFiles returns; main stops on an empty list, else filters and
\* sorts, and stops on an empty result.
FilterAndSort ==
    /\ step \in {"start", "between"}
    /\ thrown' = FALSE
    /\ IF allListings = <<>>
       THEN /\ step' = "done"
            /\ UNCHANGED filteredListings
       ELSE /\ filteredListings' = filterAndSortListings(allListings)
            /\ step' = IF filteredListings' = <<>> THEN "done" ELSE "filtered"
    /\ UNCHANGED <<lastIndex, fileNo, ingested, seenMlsNumbers, allListings, csv, timezone>>
    /\ UNCHANGED <<vars, bvars, dvars>>

\* main converts the filtered listings and writes the report.
WriteReport ==
    /\ step = "filtered"
    /\ csv' = convertToCSV(filteredListings)
    /\ step' = "done"
    /\ UNCHANGED <<lastIndex, fileNo, ingested, seenMlsNumbers, allListings,
                   thrown, filteredListings, timezone>>
    /\ UNCHANGED <<vars, bvars, dvars>>

AnalyzerNext ==
    \/ OpenFile
    \/ IngestResult
    \/ EndFile
    \/ FilterAndSort
    \/ WriteReport

AnalyzerSpec == AnalyzerInit /\ [][AnalyzerNext]_avars

\* ---- One normalization ----------------------------------------------------
\* processListing is about to be called on the first record of a file, in a
\* process whose garage pattern stands anywhere it can.
ListingInit ==
    /\ SearchAbsent
    /\ BoxAbsent
    /\ DelayAbsent
    /\ step = "file"
    /\ lastIndex \in LastIndexValues
    /\ fileNo = 1
    /\ ingested = <<>>
    /\ seenMlsNumbers = {}
    /\ allListings = <<>>
    /\ thrown = FALSE
    /\ filteredListings = <<>>
    /\ csv = <<>>
    /\ timezone = 0

NormalizeOne ==
    /\ step = "file"
    /\ ingested = <<>>
    /\ \E r \in AnyResults :
         /\ ingested' = Append(ingested, [result |-> r])
         /\ Ingest(r)
    /\ UNCHANGED <<fileNo, filteredListings, csv, timezone>>
    /\ UNCHANGED <<vars, bvars, dvars>>

ListingNext == NormalizeOne

ListingSpec == ListingInit /\ [][ListingNext]_avars

\* ---- One conversion -------------------------------------------------------
\* 'Says "no pets"', a line break, 'Call'
RemarksQuoted ==
    Str(<<W("Says", 4), SP, QUOTE, W("no", 2), SP, W("pets", 4), QUOTE, NL,
          W("Call", 4)>>)

\* "638969156023730000", 2025-10-24 at 12:00 UTC to the quarter day
TicksOct24 == Str(<<Ticks(2958190, 18)>>)

\* Records whose Listings hold every kind of value a row can: texts with commas,
\* quotes and line breaks, empty texts, a decimal area, 'N/A', Infinity, a date.
CsvResults ==
    { Result(Str(<<W("A", 1)>>), RemarksFull, AddressBay, Rent2000, ParkingGarage,
             undefined, Area700),
      Result(Str(<<W("B", 1)>>), RemarksQuoted, AddressBay, Rent1, undefined,
             undefined, Area700),
      Result(undefined, undefined, undefined, undefined, undefined, undefined,
             undefined),
      Result(Str(<<W("C", 1)>>), Str(<<QUOTE>>), AddressBsmt, Rent2000, undefined,
             TypeGarage, Area600to799),
      [Result(Str(<<W("D", 1)>>), Str(<<NL>>), AddressBay, Rent2000, undefined,
              undefined, Area1000to1200)
         EXCEPT !.InsertedDateUTC = TicksOct24,
                !.RelativeURLEn = Str(<<W("/real-estate/1", 14)>>),
                !.Building.Bedrooms = Str(<<D(2, 1), SP, W("+", 1), SP, D(1, 1)>>),
                !.Property.ParkingSpaceTotal = Str(<<D(1, 1)>>)],
      Result(Str(<<W("E", 1)>>), Str(<<COMMA>>), Str(<<QUOTE, QUOTE>>), Rent0,
             undefined, undefined, AreaDecimal) }

\* The Listings of those records, of a file of the first search and of a file
\* whose name holds no config number.
CsvListings ==
    { processListing(r, configNumber, 0, 0).listing :
        r \in CsvResults, configNumber \in {Num(1), null} }

MaxRows == 2

\* convertToCSV is about to be called, by main or through module.exports, on
\* any list of Listings.
CsvInit ==
    /\ SearchAbsent
    /\ BoxAbsent
    /\ DelayAbsent
    /\ step = "filtered"
    /\ lastIndex = 0
    /\ fileNo = 0
    /\ ingested = <<>>
    /\ seenMlsNumbers = {}
    /\ allListings = <<>>
    /\ thrown = FALSE
    /\ filteredListings \in UNION { [1..n -> CsvListings] : n \in 0..MaxRows }
    /\ csv = <<>>
    /\ timezone = 0

CsvNext == WriteReport

CsvSpec == CsvInit /\ [][CsvNext]_avars

\* ---- One record with a date ------------------------------------------------
\* The quarter day of 2025-10-24 00:00 UTC, and how many quarter days from it
\* are tried.
FirstQuarter == 2958188
MaxQuarters == 48

\* An InsertedDateUTC: the ticks of the quarter days from FirstQuarter, "0", a
\* text of 21 digits past the range of Date, texts that are no number, the
\* empty text, a blank, a number, and no value.
TimestampValues ==
    { Str(<<Ticks(FirstQuarter + k, 18)>>) : k \in 0..(MaxQuarters - 1) }
    \cup { Str(<<D(0, 1)>>), Str(<<Ticks(500000000, 21)>>),
           Str(<<W("yesterday", 9)>>),
           Str(<<D(2025, 4), HY, D(10, 2), HY, D(24, 2)>>),
           Str(<<>>), Str(<<SP>>), Num(0), Num(5), undefined, null }

TimestampResults ==
    { [Result(Str(<<W("A", 1)>>), RemarksPlain, AddressBay, Rent2000, undefined,
              undefined, Area700) EXCEPT !.InsertedDateUTC = t] :
        t \in TimestampValues }

\* processListing is about to be called on a record, in a process of any zone.
TimestampInit ==
    /\ SearchAbsent
    /\ BoxAbsent
    /\ DelayAbsent
    /\ step = "file"
    /\ lastIndex = 0
    /\ fileNo = 1
    /\ ingested = <<>>
    /\ seenMlsNumbers = {}
    /\ allListings = <<>>
    /\ thrown = FALSE
    /\ filteredListings = <<>>
    /\ csv = <<>>
    /\ timezone \in TimezoneOffsets

NormalizeDated ==
    /\ step = "file"
    /\ ingested = <<>>
    /\ \E r \in TimestampResults :
         /\ ingested' = Append(ingested, [result |-> r])
         /\ Ingest(r)
    /\ UNCHANGED <<fileNo, filteredListings, csv, timezone>>
    /\ UNCHANGED <<vars, bvars, dvars>>

TimestampNext == NormalizeDated

TimestampSpec == TimestampInit /\ [][TimestampNext]_avars

\* ---- calculateBoundingBox --------------------------------------------------
\* Angles are held in 1/10000 of a degree, radii in hundreds of metres.
Degrees(n) == 10000 * n

\* Math.cos(centerLat * (Math.PI / 180)), in 1/10000, of the latitudes below
cos(lat) ==
    CASE lat = 0          -> 10000
      [] lat = 436450     -> 7236
      [] lat = -338700    -> 8303
      [] lat = 600000     -> 5000
      [] lat = -600000    -> 5000
      [] lat = 890000     -> 175
      [] lat = 899000     -> 17
      [] OTHER            -> 0

\* (radiusInMeters / EARTH_RADIUS_M) * (180 / Math.PI): 100 m on a sphere of
\* 6371000 m are 0.000899322 degrees
deltaLat(radius) == Round(radius * 899322, 100000)

\* A box whose longitudes are corrected by half a turn.
calculateBoundingBoxHalfTurn(centerLat, centerLon, radiusInMeters) ==
    LET minLat == centerLat - deltaLat(radiusInMeters)
        maxLat == centerLat + deltaLat(radiusInMeters)
        cosLat == cos(centerLat)
    IN  IF cosLat = 0
        THEN [called |-> TRUE, minLatitude |-> minLat, maxLatitude |-> maxLat,
              minLongitude |-> -Degrees(180), maxLongitude |-> Degrees(180)]
        ELSE LET deltaLon == Round(deltaLat(radiusInMeters) * 10000, cosLat)
                 minLon == centerLon - deltaLon
                 maxLon == centerLon + deltaLon
             IN  [called |-> TRUE, minLatitude |-> minLat, maxLatitude |-> maxLat,
                  minLongitude |-> IF minLon < -Degrees(180)
                                   THEN minLon + Degrees(180) ELSE minLon,
                  maxLongitude |-> IF maxLon > Degrees(180)
                                   THEN maxLon - Degrees(180) ELSE maxLon]

calculateBoundingBox(centerLat, centerLon, radiusInMeters) ==
    LET minLat == centerLat - deltaLat(radiusInMeters)
        maxLat == centerLat + deltaLat(radiusInMeters)
        cosLat == cos(centerLat)
    IN  IF cosLat = 0
        THEN [called |-> TRUE, minLatitude |-> minLat, maxLatitude |-> maxLat,
              minLongitude |-> -Degrees(180), maxLongitude |-> Degrees(180)]
        ELSE LET deltaLon == Round(deltaLat(radiusInMeters) * 10000, cosLat)
                 minLon == centerLon - deltaLon
                 maxLon == centerLon + deltaLon
             IN  [called |-> TRUE, minLatitude |-> minLat, maxLatitude |-> maxLat,
                  minLongitude |-> IF minLon < -Degrees(180)
                                   THEN minLon + Degrees(360) ELSE minLon,
                  maxLongitude |-> IF maxLon > Degrees(180)
                                   THEN maxLon - Degrees(360) ELSE maxLon]

\* The points and radii tried: the equator, 43.645 (the first point of
\* latlngList), -33.87, 60 north and south, 89 and 89.9; -79.3847, 0, 116.2 and
\* 179.99 east and west; no area (2000 m), 100 m, 1500 m and 100 km.
Latitudes == {0, 436450, -338700, 600000, -600000, 890000, 899000}
Longitudes == {-793847, 0, 1162000, 1799900, -1799900}
Areas == {0, 1, 15, 1000}

BoxInit ==
    /\ SearchAbsent
    /\ AnalyzerAbsent
    /\ DelayAbsent
    /\ latlng \in [lat : Latitudes, lon : Longitudes, area : Areas]
    /\ bbox = [called |-> FALSE]

\* calculateBoundingBox(lat, lon, area ? area : 2000)
CalculateBox ==
    /\ ~bbox.called
    /\ bbox' = calculateBoundingBox(latlng.lat, latlng.lon,
                                    IF latlng.area # 0 THEN latlng.area ELSE 20)
    /\ UNCHANGED latlng
    /\ UNCHANGED <<vars, avars, dvars>>

BoxNext == CalculateBox

BoxSpec == BoxInit /\ [][BoxNext]_bvars

\* ===========================================================================
\* The pacing delay (src/mytool/auto-search.js, getRandomDelay)
\* ===========================================================================
\* The largest bound of a window, in milliseconds.
MaxDelay == 3

\* Math.random() is drawn from 0/RandomSteps, 1/RandomSteps, ..., below 1.
RandomSteps == 8

\* The product taken without Math.floor (cut at the half millisecond).
getRandomDelayUnfloored(min, max, r) ==
    ((r * (max - min + 2)) \div RandomSteps) + min

\* Math.floor(Math.random() * (max - min + 1)) + min, for Math.random() =
\* r / RandomSteps and min, max, the result in half milliseconds:
\* r/RandomSteps * (max - min + 2)/2 is floored, a whole number of
\* milliseconds, and min added.
getRandomDelay(min, max, r) ==
    2 * ((r * (max - min + 2)) \div (2 * RandomSteps)) + min

\* A manager with any window of the bounded ones, or the default one.
DelayInit ==
    /\ SearchAbsent
    /\ AnalyzerAbsent
    /\ BoxAbsent
    /\ \/ minDelay \in 0..(2 * MaxDelay) /\ maxDelay \in 0..(2 * MaxDelay)
       \/ /\ minDelay = 2 * minDelayBetweenRequests
          /\ maxDelay = 2 * maxDelayBetweenRequests
    /\ randomDelay = [returned |-> FALSE]

\* One call of getRandomDelay.
GetRandomDelay ==
    /\ ~randomDelay.returned
    /\ \E r \in 0..(RandomSteps - 1) :
         randomDelay' = [returned |-> TRUE,
                         value |-> getRandomDelay(minDelay, maxDelay, r)]
    /\ UNCHANGED <<minDelay, maxDelay>>
    /\ UNCHANGED <<vars, avars, bvars>>

DelayNext == GetRandomDelay

DelaySpec == DelayInit /\ [][DelayNext]_dvars

\* ===========================================================================
\* Properties of the analyzer
\* ===========================================================================

Raw(k) == ingested[k].result

\* The record at k is the first of the run with its identifier.
IsFirst(k) == \A j \in 1..(k - 1) : Raw(j).MlsNumber # Raw(k).MlsNumber

\* The first record of the run with the identifier of the record at k.
FirstWith(k) ==
    CHOOSE f \in 1..k : Raw(f).MlsNumber = Raw(k).MlsNumber /\ IsFirst(f)

\* The Listing l carries the fields of the raw record r.
BuiltFrom(l, r) ==
    /\ l.mlsNumber = Or(r.MlsNumber, Str(<<>>))
    /\ l.addressText = Or(r.Property.Address.AddressText, Str(<<>>))
    /\ l.rent = Or(r.Property.LeaseRent, Or(r.Property.Price, Str(<<>>)))
    /\ l.publicRemarks = Or(r.PublicRemarks, Str(<<>>))

\* A field of r holds something that is not a text where a text is read.
Malformed(r) ==
    \/ NotText(r.PublicRemarks)
    \/ NotText(Or(r.Property.LeaseRent, r.Property.Price))
    \/ /\ r.Building.FloorAreaMeasurements.type = "array"
       /\ \E k \in 1..Len(r.Building.FloorAreaMeasurements.items) :
            NotText(Or(r.Building.FloorAreaMeasurements.items[k].AreaUnformatted,
                       r.Building.FloorAreaMeasurements.items[k].Area))

\* C11: no two Listings in the output of processAllJsonFiles carry the same
\* mlsNumber, records with a missing, null or empty identifier included.
C11_UniqueMlsNumbers ==
    \A a, b \in 1..Len(allListings) :
        a # b => allListings[a].mlsNumber # allListings[b].mlsNumber

\* C11, for the records that carry an identifier: no two Listings carry the
\* same non-empty mlsNumber.
C11_UniqueWhenPresent ==
    \A a, b \in 1..Len(allListings) :
        a # b /\ Truthy(allListings[a].mlsNumber)
            => allListings[a].mlsNumber # allListings[b].mlsNumber

\* C12: every later record with an identifier already met has exactly one
\* Listing with that identifier in the output, the one built from the first
\* record with it; the later record raised nothing.
C12_FirstRecordKept ==
    \A k \in 1..Len(ingested) :
        Truthy(Raw(k).MlsNumber) /\ ~IsFirst(k) =>
            LET kept == { n \in 1..Len(allListings) :
                            allListings[n].mlsNumber = Raw(k).MlsNumber }
            IN  /\ Cardinality(kept) = 1
                /\ \A n \in kept : BuiltFrom(allListings[n], Raw(FirstWith(k)))
                /\ (k = Len(ingested) /\ step = "file" => ~thrown)

\* C12, when the first record with the identifier is well-formed.
C12_FirstWellFormedRecordKept ==
    \A k \in 1..Len(ingested) :
        Truthy(Raw(k).MlsNumber) /\ ~IsFirst(k) /\ ~Malformed(Raw(FirstWith(k))) =>
            LET kept == { n \in 1..Len(allListings) :
                            allListings[n].mlsNumber = Raw(k).MlsNumber }
            IN  /\ Cardinality(kept) = 1
                /\ \A n \in kept : BuiltFrom(allListings[n], Raw(FirstWith(k)))
                /\ (k = Len(ingested) /\ step = "file" => ~thrown)

\* The filter has run on the Listings of the run.
Filtered == step \in {"filtered", "done"}

Range(seq) == { seq[k] : k \in 1..Len(seq) }

\* C13: filterAndSortListings keeps a Listing if and only if its area is at least
\* 700 sqft and it is not basement-flagged.
C13_FilterKeeps ==
    Filtered =>
        \A l \in Range(allListings) :
            l \in Range(filteredListings) <=> (l.sqft >= Sqft(700) /\ ~l.isBasement)

\* Area 650 without basement is out, area 700 with basement is out, area 700
\* without basement is in (two of the three in one run).
C13_Witness ==
    /\ Filtered
    /\ Len(allListings) = 2 /\ Len(filteredListings) = 1
    /\ \E l \in Range(allListings) :
         l.sqft = Sqft(700) /\ ~l.isBasement /\ l \in Range(filteredListings)
    /\ \E l \in Range(allListings) :
         \/ l.sqft = Sqft(650) /\ ~l.isBasement
         \/ l.sqft = Sqft(700) /\ l.isBasement

\* n is a / b rounded to the nearest whole number, halves up (b > 0).
IsRounded(n, a, b) == (2 * n - 1) * b <= 2 * a /\ 2 * a < (2 * n + 1) * b

\* The bonuses of the flags and of the area.
Bonuses(l) ==
    (IF l.petFriendly = "y" THEN 100 ELSE 0) + (IF l.hasGarage = "y" THEN 100 ELSE 0)
    + (IF l.carpetFree = "y" THEN 50 ELSE 0) + (IF l.sqft >= Sqft(700) THEN 10 ELSE 0)

\* C14: the score is the sum of the four bonuses and, with area > 0 and
\* price > 0, of 10000 / pricePerArea rounded, pricePerArea being price / area
\* rounded to two decimals (where that is not 0.00); the example scores 3757.
C14_ScoreIsSum ==
    \A l \in Range(allListings) :
        LET valued == l.sqft > 0 /\ l.rentValue > 0 IN
        /\ valued => IsRounded(l.pricePerSqft, 100 * l.rentValue * 2, l.sqft)
        /\ valued /\ l.pricePerSqft > 0 =>
              IsRounded(l.priorityScore - Bonuses(l), 10000 * 100, l.pricePerSqft)
        /\ ~valued => l.priorityScore = Bonuses(l)
        /\ ( /\ l.petFriendly = "y" /\ l.hasGarage = "y" /\ l.carpetFree = "y"
             /\ l.sqft = Sqft(700) /\ l.rentValue = 2000 ) => l.priorityScore = 3757

C14_Witness ==
    \E l \in Range(allListings) :
        /\ l.petFriendly = "y" /\ l.hasGarage = "y" /\ l.carpetFree = "y"
        /\ l.sqft = Sqft(700) /\ l.rentValue = 2000
        /\ l.pricePerSqft = 286
        /\ l.priorityScore = 3757

\* C15: no score is negative, and with the price or the area missing or zero the
\* score is the sum of the bonuses alone.
C15_NoNegativeScore ==
    \A l \in Range(allListings) :
        /\ l.priorityScore >= 0
        /\ (l.rentValue = 0 \/ l.sqft = 0) => l.priorityScore = Bonuses(l)

\* A pet-friendly Listing of 700 sqft with no price: 100 + 10.
C15_Witness ==
    \E l \in Range(allListings) :
        /\ l.rentValue = 0 /\ l.sqft = Sqft(700) /\ l.petFriendly = "y"
        /\ l.hasGarage = "n" /\ l.carpetFree = "n"
        /\ l.priorityScore = 110

\* The one-to-one maps of 1..n onto itself.
Orderings(n) == { f \in [1..n -> 1..n] : \A a, b \in 1..n : a # b => f[a] # f[b] }

\* The Listings of the run that pass the filter, in ingestion order.
PassingListings ==
    SelectSeq(allListings, LAMBDA l : l.sqft >= Sqft(700) /\ ~l.isBasement)

\* C16: the output of filterAndSortListings is a permutation of the Listings that
\* pass the filter, in non-increasing score order, Listings of equal score in
\* their ingestion order.
C16_StableDescendingSort ==
    Filtered /\ allListings # <<>> =>
        /\ Len(filteredListings) = Len(PassingListings)
        /\ \E f \in Orderings(Len(PassingListings)) :
             /\ \A k \in 1..Len(filteredListings) :
                  filteredListings[k] = PassingListings[f[k]]
             /\ \A a, b \in 1..Len(filteredListings) :
                  a < b =>
                    /\ filteredListings[a].priorityScore >= filteredListings[b].priorityScore
                    /\ filteredListings[a].priorityScore = filteredListings[b].priorityScore
                         => f[a] < f[b]

\* Two different Listings of equal score, in the report in their ingestion order.
C16_Witness ==
    /\ Filtered
    /\ Len(filteredListings) = 2
    /\ filteredListings[1] # filteredListings[2]
    /\ filteredListings[1].priorityScore = filteredListings[2].priorityScore
    /\ filteredListings = allListings

\* C17: processListing raises for no raw record.
C17_NeverRaises == Len(ingested) = 1 => ~thrown

\* C17, for the records all of whose fields are absent, null or texts:
\* processListing raises nothing, and an absent field gives its default.
C17_TotalOnTexts ==
    \A k \in 1..Len(ingested) :
        k = Len(ingested) /\ ~Malformed(Raw(k)) =>
            /\ ~thrown
            /\ Len(allListings) = 1
            /\ LET l == allListings[1]
                   r == Raw(k)
               IN  /\ BuiltFrom(l, r)
                   /\ ~Truthy(r.PublicRemarks) =>
                        l.petFriendly = "unknown" /\ l.carpetFree = "unknown"
                   /\ ~Truthy(r.Property.LeaseRent) => l.rentValue = 0
                   /\ r.Building.FloorAreaMeasurements = undefined =>
                        l.sqft = 0 /\ l.pricePerSqft = NA
                   /\ r.Property.Parking = undefined /\ r.Property.ParkingType = undefined
                        => l.hasGarage = "n"

\* A parking entry's name, or the parking type, contains "garage".
MentionsGarage(r) ==
    \/ /\ r.Property.Parking.type = "array"
       /\ \E k \in 1..Len(r.Property.Parking.items) :
            r.Property.Parking.items[k].Name.type = "string"
            /\ Contains(r.Property.Parking.items[k].Name.text, {"garage", "garages"})
    \/ /\ r.Property.ParkingType.type = "string"
       /\ Contains(r.Property.ParkingType.text, {"garage", "garages"})

\* C18: the garage flag of every Listing pushed is true if and only if its record
\* mentions a garage, whatever the record's position in the run.
C18_GarageFlag ==
    [][ Len(allListings') > Len(allListings) =>
          LET l == allListings'[Len(allListings')]
              r == ingested'[Len(ingested')].result
          IN  (l.hasGarage = "y") <=> MentionsGarage(r) ]_avars

\* C18, for the first record a process normalizes.
C18_GarageFlagOfFirstRecord ==
    Len(ingested) = 1 /\ Len(allListings) = 1 =>
        ((allListings[1].hasGarage = "y") <=> MentionsGarage(Raw(1)))

\* The descriptions with a pet-friendly keyword, and with a carpet-free keyword.
PetKeyword(remarks) == remarks \in {RemarksFull, RemarksPet}
CarpetKeyword(remarks) == remarks \in {RemarksFull, RemarksCarpet}

\* The flag of a description: 'unknown' for none, else 'y' or 'n' by the keyword.
Flag(remarks, keyword) ==
    IF remarks \in {undefined, null, Str(<<>>)} THEN "unknown"
    ELSE IF keyword THEN "y" ELSE "n"

Outside(text, k) == Cardinality({ j \in 1..(k - 1) : text[j] = QUOTE }) % 2 = 0

Split(text, sep) ==
    LET breaks == { k \in 1..Len(text) : text[k] = sep /\ Outside(text, k) }
        n == Cardinality(breaks)
        pos(m) == CHOOSE k \in breaks : Cardinality({ j \in breaks : j < k }) = m - 1
        first(m) == IF m = 1 THEN 1 ELSE pos(m - 1) + 1
        last(m) == IF m = n + 1 THEN Len(text) ELSE pos(m) - 1
    IN  [m \in 1..(n + 1) |-> SubSeq(text, first(m), last(m))]

RECURSIVE Undouble(_)
Undouble(field) ==
    IF field = <<>> THEN <<>>
    ELSE IF Len(field) >= 2 /\ field[1] = QUOTE /\ field[2] = QUOTE
         THEN <<QUOTE>> \o Undouble(SubSeq(field, 3, Len(field)))
         ELSE <<field[1]>> \o Undouble(Tail(field))

Unquote(field) ==
    IF Len(field) >= 2 /\ field[1] = QUOTE /\ field[Len(field)] = QUOTE
    THEN Undouble(SubSeq(field, 2, Len(field) - 1))
    ELSE field

\* The records of a report, each a list of field texts; an empty text has none.
ParseCSV(text) ==
    IF text = <<>> THEN <<>>
    ELSE LET lines == Split(text, NL) IN
         [k \in 1..Len(lines) |->
            LET fields == Split(lines[k], COMMA) IN
            [m \in 1..Len(fields) |-> Unquote(fields[m])]]

Column(name) == CHOOSE k \in 1..Len(headers) : headers[k] = name

\* The words that speak of pets, and of floors.
PetWords == {"pet", "pets", "dog", "dogs", "cat", "cats"}
FloorWords == {"carpet", "carpets", "hardwood", "laminate", "tile"}

\* C20: a row of the report whose description mentions neither pets nor carpets
\* has 'unknown' in the pet-friendly and in the carpet-free column.
C20_UnknownWithoutMention ==
    LET report == ParseCSV(csv) IN
    \A k \in 2..Len(report) :
        /\ ~Contains(report[k][Column("Remarks")], PetWords)
             => report[k][Column("Pet Friendly")] = <<W("unknown", 7)>>
        /\ ~Contains(report[k][Column("Remarks")], FloorWords)
             => report[k][Column("Carpet Free")] = <<W("unknown", 7)>>

\* C21: among the filtered Listings of a report, none flagged pet-friendly is
\* ranked after a Listing that is not flagged pet-friendly.
C21_PetFriendlyFirst ==
    Filtered =>
        \A a, b \in 1..Len(filteredListings) :
            a < b => ~( /\ filteredListings[a].petFriendly # "y"
                        /\ filteredListings[b].petFriendly = "y" )

\* The area each list of measurements stands for, in half square feet: the
\* first measurement that reads as a positive number, a range as its mean.
AreaOf(measurements) ==
    CASE measurements = undefined      -> 0
      [] measurements = Area700        -> Sqft(700)
      [] measurements = Area650        -> Sqft(650)
      [] measurements = Area600to799   -> 600 + 799
      [] measurements = Area1000to1200 -> Sqft(1100)
      [] measurements = AreaSecond     -> Sqft(850)
      [] measurements = AreaDecimal    -> Sqft(850) + 1

\* C22: the area of a Listing is the first of its record's measurements that
\* reads as a positive number, a range read as the mean of its ends and a single
\* number as itself, 0 when there is none; it is never negative.
C22_AreaExtraction ==
    \A k \in 1..Len(allListings) :
        /\ allListings[k].sqft = AreaOf(Raw(k).Building.FloorAreaMeasurements)
        /\ allListings[k].sqft >= 0

\* C22, for the measurements written in whole numbers.
C22_WholeNumberAreas ==
    \A k \in 1..Len(allListings) :
        Raw(k).Building.FloorAreaMeasurements # AreaDecimal =>
            /\ allListings[k].sqft = AreaOf(Raw(k).Building.FloorAreaMeasurements)
            /\ allListings[k].sqft >= 0

C24_HeaderAndRows ==
    step = "done" =>
        LET report == ParseCSV(csv) IN
        /\ Len(report) = 1 + Len(filteredListings)
        /\ report[1] = [k \in 1..Len(headers) |-> <<W(headers[k], Len(headers[k]))>>]
        /\ \A k \in 1..Len(filteredListings) :
               /\ Len(report[k + 1]) = 21
               /\ report[k + 1] = row(filteredListings[k])

\* C24: for a list of at least one Listing the report read back is the header
\* row and the rows of the Listings as above; for the empty list the report is
\* the empty text, without a header row.
C24_HeaderAndRowsUnlessEmpty ==
    step = "done" =>
        LET report == ParseCSV(csv) IN
        IF filteredListings = <<>> THEN csv = <<>>
        ELSE /\ Len(report) = 1 + Len(filteredListings)
             /\ Len(report[1]) = 21
             /\ report[1] = [k \in 1..Len(headers) |-> <<W(headers[k], Len(headers[k]))>>]
             /\ \A k \in 1..Len(filteredListings) :
                    /\ Len(report[k + 1]) = 21
                    /\ report[k + 1] = row(filteredListings[k])

\* A report of two Listings was written, one of them with quotes, a line break
\* and commas in its values.
C24_Witness ==
    /\ step = "done"
    /\ Len(filteredListings) = 2
    /\ filteredListings[1].publicRemarks = RemarksQuoted
    /\ filteredListings[2].publicRemarks = RemarksFull
    /\ \E k \in 1..Len(csv) : csv[k] = QUOTE /\ k < Len(csv) /\ csv[k + 1] = QUOTE

\* A text that reads YYYY-MM-DD.
IsDate(v) ==
    /\ v.type = "string"
    /\ Len(v.text) = 5
    /\ v.text[2] = HY /\ v.text[4] = HY
    /\ v.text[1].s = "#" /\ v.text[1].w = 4
    /\ v.text[3].s = "#" /\ v.text[3].w = 2 /\ v.text[3].n \in 1..12
    /\ v.text[5].s = "#" /\ v.text[5].w = 2 /\ v.text[5].n \in 1..31

\* The calendar: the day that is k days after 2025-10-24, for the days around it.
CalendarDate(k) ==
    IF k < 8 THEN Str(<<D(2025, 4), HY, D(10, 2), HY, D(24 + k, 2)>>)
    ELSE Str(<<D(2025, 4), HY, D(11, 2), HY, D(k - 7, 2)>>)

\* The ticks drawn from FirstQuarter on.
SampledTick(v) ==
    /\ v.type = "string" /\ Len(v.text) = 1 /\ v.text[1].s = "#ticks"
    /\ v.text[1].n >= FirstQuarter /\ v.text[1].n < FirstQuarter + MaxQuarters

\* C25: formatTimestamp raises nothing; an empty input gives the empty text, a
\* tick value the date YYYY-MM-DD of its day, and every other result is the
\* input unchanged, never a text that is no date.
C25_DateOrOriginal ==
    Len(ingested) = 1 =>
        LET given == ingested[1].result.InsertedDateUTC IN
        /\ ~thrown
        /\ Len(allListings) = 1
        /\ LET formatted == allListings[1].insertedDate IN
           /\ ~Truthy(given) => formatted = Str(<<>>)
           /\ SampledTick(given) =>
                  formatted = CalendarDate(((given.text[1].n + timezone) \div 4)
                                           - (FirstQuarter \div 4))
           /\ Truthy(given) => IsDate(formatted) \/ formatted = given

\* What holds of formatTimestamp: it raises nothing, an empty input gives the
\* empty text, a tick of the days sampled gives the date of its day in the zone
\* of the process, and a text that is no number comes back unchanged.
C25_DateOfSampledTicks ==
    Len(ingested) = 1 =>
        LET given == ingested[1].result.InsertedDateUTC IN
        /\ ~thrown
        /\ Len(allListings) = 1
        /\ LET formatted == allListings[1].insertedDate IN
           /\ ~Truthy(given) => formatted = Str(<<>>)
           /\ SampledTick(given) =>
                  formatted = CalendarDate(((given.text[1].n + timezone) \div 4)
                                           - (FirstQuarter \div 4))
           /\ Truthy(given) /\ ~IsBigInt(given) => formatted = given

\* C26: a step that raises, reading or parsing a file or normalizing one of its
\* records, keeps every Listing produced so far and leaves the loop ready for
\* the next file; and when main is done the report is the conversion of the
\* Listings that were normalized, filtered and sorted.
C26_FailedFileSkipped ==
    /\ [][ thrown' => (allListings' = allListings /\ step' = "between") ]_avars
    /\ [](step = "done" => csv = convertToCSV(filterAndSortListings(allListings)))

\* The first record raised and its file was abandoned, the Listing of the report
\* comes from the second file.
C26_Witness ==
    /\ step = "done"
    /\ csv # <<>>
    /\ Len(ingested) = 2
    /\ Malformed(ingested[1].result)
    /\ Len(allListings) = 1
    /\ allListings[1].locationName = CONFIG_NAMES[2]

C28_SameListingWhateverBefore ==
    [][ Len(allListings') = Len(allListings) + 1
          => allListings'[Len(allListings')]
               = processListing(ingested'[Len(ingested')].result,
                                extractConfigNumber(FileName(fileNo)), 0,
                                timezone).listing ]_avars

\* C29: every identifier in seenMlsNumbers has exactly one Listing in
\* allListings, also after a record raised and its file was abandoned.
C29_SeenHasOneListing ==
    \A id \in seenMlsNumbers :
        Cardinality({ k \in 1..Len(allListings) :
                        allListings[k].mlsNumber = Or(id, Str(<<>>)) }) = 1

\* C30: a Listing of positive area and positive price has a finite score, no
\* less than 0.
C30_FiniteScore ==
    \A k \in 1..Len(allListings) :
        (allListings[k].sqft > 0 /\ allListings[k].rentValue > 0)
            => /\ allListings[k].priorityScore # Infinity
               /\ allListings[k].priorityScore >= 0

\* What holds of the score: it is finite unless the price per square foot
\* rounds to 0.00, and then it is Infinity.
C30_FiniteUnlessPriceRoundsToZero ==
    \A k \in 1..Len(allListings) :
        (allListings[k].sqft > 0 /\ allListings[k].rentValue > 0)
            => (allListings[k].priorityScore = Infinity
                  <=> allListings[k].pricePerSqft = 0)

\* ===========================================================================
\* Properties of the pacing delay
\* ===========================================================================
\* A whole number of milliseconds.
Whole(h) == h % 2 = 0

====
